---- MODULE Spec2Model ----
(***************************************************************************)
(* Model of the analysis-and-proposal pipeline of src/unnamed/part_003     *)
(* (class AIAnalyzer): analyzeEmployee with its retry loop, batch proposal *)
(* generation (generateTransferProposals) and targeted proposal generation *)
(* (generateTargetedTransferProposals), and its reply parser extractJSON;   *)
(* of the conversational operations findCandidatesWithCondition and        *)
(* refineCandidate; and of the request handlers that call them: the        *)
(* candidates endpoint (src/unnamed/part_008) and the analyze endpoint     *)
(* (src/unnamed/part_007) over the DataStore of src/lib/data-store.ts.     *)
(*                                                                         *)
(* Scores are fixed-point numbers in thousandths: 600 stands for 0.6,      *)
(* 755 for 0.755, 1500 for 1.5.                                            *)
(***************************************************************************)
EXTENDS Integers, Sequences, FiniteSets, TLC

\* ------------------------------------------------------------------------
\* Bounds and input domains
\* ------------------------------------------------------------------------

\* longest employee / candidate list passed to an operation
MaxEmployees == 2

\* longest model reply, in tokens, handed to extractJSON
MaxContentLen == 4

\* a retry limit that is one too large
maxRetriesOffByOne == 3 + 1

\* AIAnalyzer.maxRetries
maxRetries == 3

\* the 0.6 of `score > 0.6` and of `Math.max(targetFitScore, 0.6)`
FitThreshold == 600

ConfidenceFloor == 600

\* the roster the lists are drawn from: id, display name, current department
EmployeePool ==
    { [id |-> "E1", name |-> "Sato", department |-> "Sales"],
      [id |-> "E2", name |-> "Suzuki", department |-> "Engineering"] }

\* an id the model may name although no employee carries it
UnknownId == "E9"

\* the department set passed to generateTransferProposals
Departments == {"Sales", "Engineering"}

\* department names in the order the model lists them in departmentFit;
\* "Legal" is a key the model may return although it is not in Departments
KeyOrder == <<"Sales", "Engineering", "Legal">>

\* fit scores the model may return (0.3, 0.6, 0.755, 0.9, 1.5)
FitValues == {300, 600, 755, 900, 1500}

\* the failures of an attempt whose call is not raced against a timer
FailureMessagesNoTimer == {"apiError", "badContent"}

\* the ways one attempt of analyzeEmployee can fail: the 30 s timer wins the
\* race, the provider rejects, the reply is empty or not parseable
FailureMessages == {"timeout", "apiError", "badContent"}

RECURSIVE SeqsUpTo(_, _)
SeqsUpTo(S, n) ==
    IF n = 0 THEN {<<>>}
    ELSE LET shorter == SeqsUpTo(S, n - 1)
         IN  shorter \cup {Append(s, x) : s \in {t \in shorter : Len(t) = n - 1}, x \in S}

EmployeeLists == SeqsUpTo(EmployeePool, MaxEmployees)

\* departmentFit as Object.entries sees it: a sequence of <<name, score>>
\* with distinct names
RECURSIVE FitEntriesFrom(_)
FitEntriesFrom(k) ==
    IF k > Len(KeyOrder) THEN {<<>>}
    ELSE LET rest == FitEntriesFrom(k + 1)
         IN  rest \cup {<<(<<KeyOrder[k], v>>)>> \o r : v \in FitValues, r \in rest}

FitMaps == FitEntriesFrom(1)

\* parsed replies of the profiling call: with a departmentFit mapping or
\* a JSON object without one
AnalysisReplies ==
    {[hasFit |-> TRUE, departmentFit |-> f] : f \in FitMaps}
        \cup {[hasFit |-> FALSE, departmentFit |-> <<>>]}

\* replies drawn for an attempt that follows a failed one
RetryReplies ==
    { [hasFit |-> FALSE, departmentFit |-> <<>>],
      [hasFit |-> TRUE, departmentFit |-> <<(<<"Engineering", 900>>)>>],
      [hasFit |-> TRUE,
       departmentFit |-> <<(<<"Sales", 755>>), (<<"Legal", 300>>)>>] }

RepliesAt(n) == IF n = 1 THEN AnalysisReplies ELSE RetryReplies

\* parsed replies that carry an employeeId key of their own; they are drawn
\* when analyzeEmployee is observed alone, the loops of the two generators
\* never reading the employeeId of the analysis
KeyedReplies(m) ==
    IF m = "analyze"
    THEN {[hasFit |-> TRUE, departmentFit |-> <<(<<"Engineering", 900>>)>>,
           employeeId |-> id] : id \in {"E1", "E2", "E9"}}
    ELSE {}

\* {employeeId: employee.id, ...analysis}: the keys of the parsed reply are
\* spread after employeeId, so a reply's own employeeId replaces it
SpreadAnalysis(employee, r) ==
    [status |-> "ok",
     employeeId |-> IF "employeeId" \in DOMAIN r THEN r.employeeId
                    ELSE employee.id,
     hasFit |-> r.hasFit, departmentFit |-> r.departmentFit]

NoAnalysis == [status |-> "none"]

EmployeeIds == {e.id : e \in EmployeePool}

\* a provider that may reply any profile for any employee
AnyProfiles == [id \in EmployeeIds |-> AnalysisReplies]

\* the provider of the end-to-end scenario: E1 fits Engineering at 0.9, E2 has
\* no fit above 0.6 outside its own department; scores only for Departments
ScenarioProfiles ==
    [id \in EmployeeIds |->
        IF id = "E1"
        THEN {r \in AnalysisReplies :
                /\ r.hasFit
                /\ \E k \in 1..Len(r.departmentFit) :
                      r.departmentFit[k] = <<"Engineering", 900>>
                /\ \A k \in 1..Len(r.departmentFit) :
                      r.departmentFit[k][1] \in Departments}
        ELSE {r \in AnalysisReplies :
                /\ r.hasFit
                /\ \A k \in 1..Len(r.departmentFit) :
                      /\ r.departmentFit[k][1] \in Departments
                      /\ r.departmentFit[k][1] # "Engineering"
                            => r.departmentFit[k][2] <= 600}]

\* a provider whose profiles are the three of RetryReplies
FewProfiles == [id \in EmployeeIds |-> RetryReplies]

Profiles(behaviour) ==
    IF behaviour = "scenario" THEN ScenarioProfiles
    ELSE IF behaviour = "few" THEN FewProfiles
    ELSE AnyProfiles

\* the tokens a model reply is made of: the fence (three backquotes), the word json, a line
\* break, the braces, a member with a scalar value ("a":1), a key with its
\* colon ("o":) that an object follows, the comma, and other prose
Tokens == {"fence", "json", "\n", "{", "}", "m", "k", ",", "x"}

Contents == SeqsUpTo(Tokens, MaxContentLen)

VARIABLES
    mode,             \* the public operation called: "analyze", "batch", "targeted"
    employees,        \* its employees / candidates argument
    options,          \* its AnalysisRequest argument
    targetDepartment, \* targeted mode: the targetDepartment argument
    pc,               \* position in the running operation
    targetEmployees,  \* batch: the narrowed list; otherwise the argument list
    i,                \* loop index (1-based)
    proposals,        \* const proposals: TransferProposal[]
    successCount,
    errorCount,
    attempt,          \* analyzeEmployee: loop variable
    lastError,        \* analyzeEmployee: lastError
    attemptLog,       \* outcome of every provider call of the running analyzeEmployee
    analysis,         \* what the last analyzeEmployee call returned or threw
    pending,          \* proposal fields computed before the reasoning call
    log,              \* console: one entry per processed list element
    result,           \* what the operation returned or threw
    provider,         \* the provider's behaviour: "any" or "scenario"
    providerEverOk    \* whether any provider call of this operation succeeded

VARIABLES
    content,          \* extractJSON: the content argument
    extracted         \* extractJSON: what it returned or threw

VARIABLES
    production,       \* process.env.NODE_ENV === 'production'
    storeData,        \* DataStore.data: the employees of the roster, <<>> for null
    storeDepartments, \* DataStore.data.departments, <<>> for null
    storeProposals,   \* DataStore.proposals
    storeMetrics,     \* DataStore.metrics
    files,            \* employees.json, proposals.json, metrics.json on disk
    pendingWrites,    \* fs.writeFile calls that have not completed
    request,          \* the request being handled
    apc,              \* position of its handler
    response,         \* the response of the handler
    opCalls,          \* replies to the provider calls of the running single-call operation
    opResult,         \* what that operation returned or threw
    proposalsBefore,  \* DataStore.proposals when the handler had initialized the store
    served,           \* whether a proposal-generating request has been accepted
    panel,            \* AnalysisPanel: idle, analyzing, timedOut, done or error
    cleared,          \* DELETE /api/data has succeeded and nothing was generated since
    auth              \* process.env, the last request to the middleware or the login
                      \* endpoint, and its outcome

extractVars == <<content, extracted>>

storeVars == <<production, storeData, storeDepartments, storeProposals, storeMetrics, files,
               pendingWrites>>

handlerVars == <<request, apc, response, opCalls, opResult, proposalsBefore, served>>

\* the state outside the running analyzer operation
serviceVars == <<extractVars, storeVars, handlerVars, panel, cleared, auth, auth>>

vars == <<mode, employees, options, targetDepartment, pc, targetEmployees, i,
          proposals, successCount, errorCount, attempt, lastError, attemptLog,
          analysis, pending, log, result, provider, providerEverOk, serviceVars>>

callerVars == <<mode, employees, options, targetDepartment, targetEmployees, i,
                proposals, successCount, errorCount, pending, log, result, provider,
                serviceVars>>

retryVars == <<attempt, lastError, attemptLog, analysis>>

\* ------------------------------------------------------------------------
\* Pure helpers
\* ------------------------------------------------------------------------

Min(a, b) == IF a <= b THEN a ELSE b

Max(a, b) == IF a >= b THEN a ELSE b

\* Math.round(score * 100) without the division by 100
Round2NoDivide(score) == ((score + 5) \div 10) * 1000

\* Math.round(score * 100) / 100 on thousandths: half rounds up
Round2(score) == ((score + 5) \div 10) * 10

\* Array.prototype.sort with (a, b) => b - a: stable, descending by score
RECURSIVE InsertDesc(_, _)
InsertDesc(e, sorted) ==
    IF sorted = <<>> THEN <<e>>
    ELSE IF Head(sorted)[2] < e[2] THEN <<e>> \o sorted
         ELSE <<Head(sorted)>> \o InsertDesc(e, Tail(sorted))

\* the comparator (a, b) => a - b: ascending
RECURSIVE InsertAsc(_, _)
InsertAsc(e, sorted) ==
    IF sorted = <<>> THEN <<e>>
    ELSE IF Head(sorted)[2] > e[2] THEN <<e>> \o sorted
         ELSE <<Head(sorted)>> \o InsertAsc(e, Tail(sorted))

RECURSIVE SortAscending(_)
SortAscending(s) ==
    IF s = <<>> THEN <<>>
    ELSE InsertAsc(s[Len(s)], SortAscending(SubSeq(s, 1, Len(s) - 1)))

RECURSIVE SortDesc(_)
SortDesc(s) ==
    IF s = <<>> THEN <<>>
    ELSE InsertDesc(s[Len(s)], SortDesc(SubSeq(s, 1, Len(s) - 1)))

\* candidateDepartments without the test against the current department
CandidateDepartmentsAnyDept(currentDept, departmentFit) ==
    LET kept == SelectSeq(departmentFit, LAMBDA e : e[2] > FitThreshold)
        sorted == SortDesc(kept)
    IN  SubSeq(sorted, 1, Min(3, Len(sorted)))

\* the candidateDepartments of generateEmployeeTransferProposal
CandidateDepartments(currentDept, departmentFit) ==
    LET kept == SelectSeq(departmentFit,
                          LAMBDA e : e[1] # currentDept /\ e[2] > FitThreshold)
        sorted == SortDesc(kept)
    IN  SubSeq(sorted, 1, Min(3, Len(sorted)))

\* employeeAnalysis.departmentFit[targetDepartment] || 0
TargetFitScore(departmentFit, dept) ==
    LET hits == SelectSeq(departmentFit, LAMBDA e : e[1] = dept)
    IN  IF hits = <<>> THEN 0 ELSE hits[1][2]

\* the fit score taken as it is, without the floor
TargetedConfidenceNoFloor(targetFitScore) == targetFitScore

\* Math.max(targetFitScore, 0.6)
TargetedConfidence(targetFitScore) == Max(targetFitScore, ConfidenceFloor)

\* the Error thrown by analyzeEmployee after the loop
ExhaustedError(employee, cause) ==
    [status |-> "thrown", kind |-> "EmployeeAnalysisFailed",
     employeeName |-> employee.name, attempts |-> maxRetries, cause |-> cause]

\* employees.filter((emp) => ids.includes(emp.id))
FilterByIds(list, ids) == SelectSeq(list, LAMBDA emp : emp.id \in ids)

MakeProposal(employee, toDept, confidence, reasoning) ==
    [employeeId |-> employee.id, employeeName |-> employee.name,
     fromDepartment |-> employee.department, toDepartment |-> toDept,
     confidenceScore |-> confidence, reasoning |-> reasoning]

LogEntry(index, employee, outcome) ==
    [index |-> index, employeeId |-> employee.id, outcome |-> outcome]

\* ------------------------------------------------------------------------
\* Inputs
\* ------------------------------------------------------------------------

Modes == {"analyze", "batch", "targeted"}

\* options.employeeIds: absent, or a list of ids
IdFilters ==
    { [present |-> FALSE, ids |-> {}],
      [present |-> TRUE, ids |-> {"E1", UnknownId}] }

\* options.naturalLanguageCondition: absent, whitespace only, or a text
Conditions == {"absent", "blank", "text"}

OptionSets ==
    [employeeIds : IdFilters, naturalLanguageCondition : Conditions,
     includeReasons : BOOLEAN]

DefaultOptions ==
    [employeeIds |-> [present |-> FALSE, ids |-> {}],
     naturalLanguageCondition |-> "absent", includeReasons |-> FALSE]

\* replies of the pre-filter call: a failure, or selectedEmployeeIds
FilterReplies ==
    {[ok |-> FALSE, ids |-> {}]}
        \cup {[ok |-> TRUE, ids |-> S] : S \in SUBSET {"E1", "E2", UnknownId}}

\* replies of a reasoning call
ReasonReplies == {"text", "empty", "error"}

NoPending == [toDepartment |-> "", confidenceScore |-> 0]

NoResult == [status |-> "running"]

NotExtracted == [status |-> "none"]

\* no extractJSON call is under observation
ExtractIdle ==
    /\ content = <<>>
    /\ extracted = NotExtracted

FileNames == {"employees", "proposals", "metrics"}

NoFile == [exists |-> FALSE, content |-> <<>>]

NoRequest ==
    [endpoint |-> "none", action |-> "", mentions |-> {}, candidates |-> {},
     body |-> [maxEmployees |-> 0, maxProposals |-> 0,
               analysis |-> DefaultOptions]]

NoResponse ==
    [status |-> 0, candidates |-> <<>>, reasoning |-> "", proposals |-> <<>>,
     metrics |-> <<>>, success |-> FALSE, employees |-> <<>>]

NoOpResult == [status |-> "none", candidates |-> <<>>, reasoning |-> ""]

\* undefined, which === tells from every string; a string is the sequence
\* of its character codes
Undefined == <<-1>>

\* the middleware and the login endpoint are not under observation
AuthIdle ==
    [env |-> [username |-> Undefined, password |-> Undefined],
     kind |-> "none", path |-> <<>>, cookie |-> Undefined,
     header |-> [scheme |-> "none", payload |-> <<>>],
     body |-> [valid |-> TRUE, username |-> Undefined, password |-> Undefined],
     outcome |-> "none", setCookie |-> FALSE]

\* no request handler and no store are under observation
ServiceIdle ==
    /\ production = TRUE
    /\ storeData = <<>>
    /\ storeDepartments = <<>>
    /\ storeProposals = <<>>
    /\ storeMetrics = <<>>
    /\ files = [f \in FileNames |-> NoFile]
    /\ pendingWrites = {}
    /\ request = NoRequest
    /\ apc = "none"
    /\ response = NoResponse
    /\ opCalls = <<>>
    /\ opResult = NoOpResult
    /\ proposalsBefore = <<>>
    /\ served = FALSE
    /\ panel = "idle"
    /\ cleared = FALSE
    /\ auth = AuthIdle

Init ==
    /\ mode \in Modes
    /\ employees \in EmployeeLists
    /\ mode = "analyze" => Len(employees) = 1
    /\ options \in OptionSets
    /\ mode # "batch" => options = DefaultOptions
    /\ targetDepartment \in (IF mode = "targeted" THEN Departments ELSE {""})
    /\ pc = "start"
    /\ targetEmployees = employees
    /\ i = 1
    /\ proposals = <<>>
    /\ successCount = 0
    /\ errorCount = 0
    /\ attempt = 0
    /\ lastError = "null"
    /\ attemptLog = <<>>
    /\ analysis = NoAnalysis
    /\ pending = NoPending
    /\ log = <<>>
    /\ result = NoResult
    /\ provider \in {"any", "scenario"}
    /\ provider = "scenario" =>
          /\ mode = "batch"
          /\ Len(employees) = 2
          /\ employees[1].id = "E1"
          /\ employees[2].id = "E2"
          /\ ~options.employeeIds.present
          /\ options.naturalLanguageCondition # "text"
    /\ providerEverOk = FALSE
    /\ ExtractIdle
    /\ ServiceIdle

\* ------------------------------------------------------------------------
\* analyzeEmployee
\* ------------------------------------------------------------------------

current == targetEmployees[i]

\* the provider calls of the running analyzeEmployee, without the sleeps
ProviderCalls == SelectSeq(attemptLog, LAMBDA ev : ev.kind # "sleep")

NoReply == [hasFit |-> FALSE, departmentFit |-> <<>>]

Event(kind, reply) == [kind |-> kind, reply |-> reply]

\* entry: startTime, lastError = null, attempt = 1
EnterAnalyzeEmployee ==
    /\ attempt' = 1
    /\ lastError' = "null"
    /\ attemptLog' = <<>>
    /\ analysis' = NoAnalysis
    /\ pc' = "call"

\* openai.chat.completions.create raced against the 30 s timer
ProviderCall ==
    /\ pc = "call"
    /\ attemptLog' = Append(attemptLog, Event("inflight", NoReply))
    /\ pc' = "await"
    /\ UNCHANGED <<attempt, lastError, analysis, providerEverOk>>
    /\ UNCHANGED callerVars

Settle(outcome) == [attemptLog EXCEPT ![Len(attemptLog)] = outcome]

\* a loop body whose successful attempt does not return: the next attempt
\* is made although a reply was parsed
RespondOkKeepsLooping ==
    /\ pc = "await"
    /\ \E r \in (RepliesAt(attempt) \cap Profiles(provider)[current.id])
                  \cup KeyedReplies(mode) :
          /\ attemptLog' = Settle(Event("ok", r))
          /\ IF attempt < maxRetries
             THEN /\ pc' = "backoff"
                  /\ UNCHANGED analysis
             ELSE /\ pc' = "analyzed"
                  /\ analysis' = SpreadAnalysis(current, r)
    /\ providerEverOk' = TRUE
    /\ UNCHANGED <<attempt, lastError>>
    /\ UNCHANGED callerVars

\* the call wins the race, the content is not empty, extractJSON parses it:
\* return {employeeId: employee.id, ...analysis}
RespondOk ==
    /\ pc = "await"
    /\ \E r \in (RepliesAt(attempt) \cap Profiles(provider)[current.id])
                  \cup KeyedReplies(mode) :
          /\ analysis' = SpreadAnalysis(current, r)
          /\ attemptLog' = Settle(Event("ok", r))
    /\ providerEverOk' = TRUE
    /\ pc' = "analyzed"
    /\ UNCHANGED <<attempt, lastError>>
    /\ UNCHANGED callerVars

\* the catch block of the loop body; after the last attempt the loop ends
\* and the Error is thrown
RespondFail ==
    /\ pc = "await"
    /\ \E m \in FailureMessages :
          /\ lastError' = m
          /\ attemptLog' = Settle(Event(m, NoReply))
          /\ IF attempt < maxRetries
             THEN /\ pc' = "backoff"
                  /\ UNCHANGED analysis
             ELSE /\ pc' = "analyzed"
                  /\ analysis' = ExhaustedError(current, m)
    /\ UNCHANGED <<attempt, providerEverOk>>
    /\ UNCHANGED callerVars

\* a backoff that sleeps the interval twice
BackoffSleepsTwice ==
    /\ pc = "backoff"
    /\ attemptLog' = attemptLog \o <<Event("sleep", NoReply), Event("sleep", NoReply)>>
    /\ attempt' = attempt + 1
    /\ pc' = "call"
    /\ UNCHANGED <<lastError, analysis, providerEverOk>>
    /\ UNCHANGED callerVars

\* await new Promise((resolve) => setTimeout(resolve, this.retryDelay))
Backoff ==
    /\ pc = "backoff"
    /\ attemptLog' = Append(attemptLog, Event("sleep", NoReply))
    /\ attempt' = attempt + 1
    /\ pc' = "call"
    /\ UNCHANGED <<lastError, analysis, providerEverOk>>
    /\ UNCHANGED callerVars

\* the locals of analyzeEmployee go out of scope once its caller has taken
\* the result
LeaveAnalyzeEmployee ==
    /\ attempt' = 0
    /\ lastError' = "null"
    /\ attemptLog' = <<>>

\* a direct call of analyzeEmployee
AnalyzeCall ==
    /\ mode = "analyze"
    /\ pc = "start"
    /\ EnterAnalyzeEmployee
    /\ UNCHANGED providerEverOk
    /\ UNCHANGED callerVars

AnalyzeReturn ==
    /\ mode = "analyze"
    /\ pc = "analyzed"
    /\ result' = analysis
    /\ pc' = "done"
    /\ UNCHANGED <<mode, employees, options, targetDepartment, targetEmployees,
                   i, proposals, successCount, errorCount, pending, log,
                   provider, providerEverOk, serviceVars>>
    /\ UNCHANGED retryVars

\* ------------------------------------------------------------------------
\* generateTransferProposals (batch mode)
\* ------------------------------------------------------------------------

inputVars == <<mode, employees, options, targetDepartment, provider, serviceVars>>

\* options.employeeIds ? employees.filter(...) : employees
IdFiltered(list, opts) ==
    IF opts.employeeIds.present THEN FilterByIds(list, opts.employeeIds.ids)
    ELSE list

\* options.naturalLanguageCondition && options.naturalLanguageCondition.trim()
HasCondition(opts) == opts.naturalLanguageCondition = "text"

\* a narrowing by id that overwrites the employees argument itself
BatchBeginNarrowsInput ==
    /\ mode = "batch"
    /\ pc = "start"
    /\ targetEmployees' = IdFiltered(employees, options)
    /\ employees' = IdFiltered(employees, options)
    /\ pc' = IF HasCondition(options) THEN "filter" ELSE "loop"
    /\ UNCHANGED <<i, proposals, successCount, errorCount, pending, log, result,
                   providerEverOk>>
    /\ UNCHANGED <<mode, options, targetDepartment, provider, serviceVars>>
    /\ UNCHANGED retryVars

\* the narrowing by id; the pre-filter call is issued when a condition is set
BatchBegin ==
    /\ mode = "batch"
    /\ pc = "start"
    /\ targetEmployees' = IdFiltered(employees, options)
    /\ pc' = IF HasCondition(options) THEN "filter" ELSE "loop"
    /\ UNCHANGED <<i, proposals, successCount, errorCount, pending, log, result,
                   providerEverOk>>
    /\ UNCHANGED inputVars
    /\ UNCHANGED retryVars

\* a pre-filter that keeps nobody when its call throws
BatchFilterFailsClosed ==
    /\ pc = "filter"
    /\ \E r \in FilterReplies :
          /\ targetEmployees' = IF r.ok THEN FilterByIds(targetEmployees, r.ids)
                                ELSE <<>>
          /\ providerEverOk' = (providerEverOk \/ r.ok)
    /\ pc' = "loop"
    /\ UNCHANGED <<i, proposals, successCount, errorCount, pending, log, result>>
    /\ UNCHANGED inputVars
    /\ UNCHANGED retryVars

\* filterEmployeesByCondition: the candidates of findCandidatesWithCondition,
\* or the unfiltered list when that call throws
BatchFilter ==
    /\ pc = "filter"
    /\ \E r \in FilterReplies :
          /\ targetEmployees' = IF r.ok THEN FilterByIds(targetEmployees, r.ids)
                                ELSE targetEmployees
          /\ providerEverOk' = (providerEverOk \/ r.ok)
    /\ pc' = "loop"
    /\ UNCHANGED <<i, proposals, successCount, errorCount, pending, log, result>>
    /\ UNCHANGED inputVars
    /\ UNCHANGED retryVars

\* loop head: await this.analyzeEmployee(employee)
BatchAnalyze ==
    /\ mode = "batch"
    /\ pc = "loop"
    /\ i <= Len(targetEmployees)
    /\ EnterAnalyzeEmployee
    /\ UNCHANGED providerEverOk
    /\ UNCHANGED callerVars

\* a loop body without its try/catch: the error of analyzeEmployee reaches
\* the outer catch and the whole call throws
BatchErrorRethrows ==
    /\ mode = "batch"
    /\ pc = "analyzed"
    /\ analysis.status = "thrown"
    /\ result' = [status |-> "thrown", kind |-> "ProposalGenerationFailed"]
    /\ pc' = "done"
    /\ UNCHANGED <<targetEmployees, i, proposals, successCount, errorCount,
                   pending, log, providerEverOk>>
    /\ UNCHANGED inputVars
    /\ UNCHANGED retryVars

\* catch of the loop body: errorCount++, the batch continues
BatchError ==
    /\ mode = "batch"
    /\ pc = "analyzed"
    /\ analysis.status = "thrown"
    /\ errorCount' = errorCount + 1
    /\ log' = Append(log, LogEntry(i, current, "error"))
    /\ i' = i + 1
    /\ pc' = "loop"
    /\ UNCHANGED <<targetEmployees, proposals, successCount, pending, result,
                   providerEverOk>>
    /\ UNCHANGED inputVars
    /\ LeaveAnalyzeEmployee
    /\ analysis' = NoAnalysis

\* generateEmployeeTransferProposal returns null: no department qualifies, or
\* Object.entries(undefined) throws inside its try block
BatchNoProposal ==
    /\ mode = "batch"
    /\ pc = "analyzed"
    /\ analysis.status = "ok"
    /\ \/ ~analysis.hasFit
       \/ CandidateDepartments(current.department, analysis.departmentFit) = <<>>
    /\ log' = Append(log, LogEntry(i, current, "none"))
    /\ i' = i + 1
    /\ pc' = "loop"
    /\ UNCHANGED <<targetEmployees, proposals, successCount, errorCount, pending,
                   result, providerEverOk>>
    /\ UNCHANGED inputVars
    /\ LeaveAnalyzeEmployee
    /\ analysis' = NoAnalysis

\* const [targetDepartment, confidenceScore] = candidateDepartments[0]
BestDepartment(employee, departmentFit) ==
    LET best == CandidateDepartments(employee.department, departmentFit)[1]
    IN  [toDepartment |-> best[1], confidenceScore |-> Round2(best[2])]

\* a proposal step that gives no proposal when an earlier employee of the
\* batch was already proposed for the same department
BatchProposeOncePerDepartment ==
    /\ mode = "batch"
    /\ pc = "analyzed"
    /\ analysis.status = "ok"
    /\ analysis.hasFit
    /\ CandidateDepartments(current.department, analysis.departmentFit) # <<>>
    /\ LET best == BestDepartment(current, analysis.departmentFit)
       IN  IF \E k \in 1..Len(proposals) :
                 proposals[k].toDepartment = best.toDepartment
           THEN /\ log' = Append(log, LogEntry(i, current, "none"))
                /\ i' = i + 1
                /\ pc' = "loop"
                /\ analysis' = NoAnalysis
                /\ UNCHANGED <<proposals, successCount, pending>>
           ELSE IF options.includeReasons
           THEN /\ pending' = best
                /\ pc' = "reason"
                /\ UNCHANGED <<proposals, successCount, log, i, analysis>>
           ELSE /\ proposals' = Append(proposals,
                        MakeProposal(current, best.toDepartment,
                                     best.confidenceScore, "template"))
                /\ successCount' = successCount + 1
                /\ log' = Append(log, LogEntry(i, current, "proposal"))
                /\ i' = i + 1
                /\ pc' = "loop"
                /\ analysis' = NoAnalysis
                /\ UNCHANGED pending
    /\ UNCHANGED <<targetEmployees, errorCount, result, providerEverOk>>
    /\ UNCHANGED inputVars
    /\ LeaveAnalyzeEmployee

\* the best department is found; without includeReasons the templated text is
\* used and the proposal is pushed at once
BatchPropose ==
    /\ mode = "batch"
    /\ pc = "analyzed"
    /\ analysis.status = "ok"
    /\ analysis.hasFit
    /\ CandidateDepartments(current.department, analysis.departmentFit) # <<>>
    /\ LET best == BestDepartment(current, analysis.departmentFit)
       IN  IF options.includeReasons
           THEN /\ pending' = best
                /\ pc' = "reason"
                /\ UNCHANGED <<proposals, successCount, log, i, analysis>>
           ELSE /\ proposals' = Append(proposals,
                        MakeProposal(current, best.toDepartment,
                                     best.confidenceScore, "template"))
                /\ successCount' = successCount + 1
                /\ log' = Append(log, LogEntry(i, current, "proposal"))
                /\ i' = i + 1
                /\ pc' = "loop"
                /\ analysis' = NoAnalysis
                /\ UNCHANGED pending
    /\ UNCHANGED <<targetEmployees, errorCount, result, providerEverOk>>
    /\ UNCHANGED inputVars
    /\ LeaveAnalyzeEmployee

\* a reasoning step whose failed call reaches the catch of the loop body:
\* no proposal for the employee, and an error counted
ReasonReplyDropsOnError ==
    /\ pc = "reason"
    /\ \E r \in ReasonReplies :
          /\ proposals' = IF r = "error" THEN proposals
                          ELSE Append(proposals,
                                 MakeProposal(current, pending.toDepartment,
                                              pending.confidenceScore,
                                              IF r = "text" THEN "model"
                                              ELSE "template"))
          /\ errorCount' = IF r = "error" THEN errorCount + 1 ELSE errorCount
          /\ successCount' = IF mode = "batch" /\ r # "error"
                             THEN successCount + 1 ELSE successCount
          /\ log' = Append(log, LogEntry(i, current,
                                         IF r = "error" THEN "error"
                                         ELSE "proposal"))
          /\ providerEverOk' = (providerEverOk \/ r # "error")
    /\ pending' = NoPending
    /\ i' = i + 1
    /\ pc' = "loop"
    /\ UNCHANGED <<targetEmployees, result>>
    /\ UNCHANGED inputVars
    /\ analysis' = NoAnalysis
    /\ UNCHANGED <<attempt, lastError, attemptLog>>

\* the reasoning call: its text, or the templated text when the reply is
\* empty or the call throws; then the proposal is pushed
ReasonReply ==
    /\ pc = "reason"
    /\ \E r \in ReasonReplies :
          /\ proposals' = Append(proposals,
                 MakeProposal(current, pending.toDepartment,
                              pending.confidenceScore,
                              IF r = "text" THEN "model" ELSE "template"))
          /\ providerEverOk' = (providerEverOk \/ r # "error")
    /\ successCount' = IF mode = "batch" THEN successCount + 1 ELSE successCount
    /\ log' = Append(log, LogEntry(i, current, "proposal"))
    /\ pending' = NoPending
    /\ i' = i + 1
    /\ pc' = "loop"
    /\ UNCHANGED <<targetEmployees, errorCount, result>>
    /\ UNCHANGED inputVars
    /\ analysis' = NoAnalysis
    /\ UNCHANGED <<attempt, lastError, attemptLog>>

\* a return that hands the proposals back last-first
BatchReturnReversed ==
    /\ mode = "batch"
    /\ pc = "loop"
    /\ i > Len(targetEmployees)
    /\ result' = [status |-> "returned",
                  proposals |-> [k \in 1..Len(proposals) |->
                                    proposals[Len(proposals) + 1 - k]]]
    /\ pc' = "done"
    /\ UNCHANGED <<targetEmployees, i, proposals, successCount, errorCount,
                   pending, log, providerEverOk>>
    /\ UNCHANGED inputVars
    /\ UNCHANGED retryVars

\* return proposals
BatchReturn ==
    /\ mode = "batch"
    /\ pc = "loop"
    /\ i > Len(targetEmployees)
    /\ result' = [status |-> "returned", proposals |-> proposals]
    /\ pc' = "done"
    /\ UNCHANGED <<targetEmployees, i, proposals, successCount, errorCount,
                   pending, log, providerEverOk>>
    /\ UNCHANGED inputVars
    /\ UNCHANGED retryVars

\* ------------------------------------------------------------------------
\* generateTargetedTransferProposals (targeted mode)
\* ------------------------------------------------------------------------

TargetedBegin ==
    /\ mode = "targeted"
    /\ pc = "start"
    /\ pc' = "loop"
    /\ UNCHANGED <<targetEmployees, i, proposals, successCount, errorCount,
                   pending, log, result, providerEverOk>>
    /\ UNCHANGED inputVars
    /\ UNCHANGED retryVars

\* if (employee.department === targetDepartment) continue
TargetedSkip ==
    /\ mode = "targeted"
    /\ pc = "loop"
    /\ i <= Len(targetEmployees)
    /\ current.department = targetDepartment
    /\ log' = Append(log, LogEntry(i, current, "skip"))
    /\ i' = i + 1
    /\ UNCHANGED <<pc, targetEmployees, proposals, successCount, errorCount,
                   pending, result, providerEverOk>>
    /\ UNCHANGED inputVars
    /\ UNCHANGED retryVars

TargetedAnalyze ==
    /\ mode = "targeted"
    /\ pc = "loop"
    /\ i <= Len(targetEmployees)
    /\ current.department # targetDepartment
    /\ EnterAnalyzeEmployee
    /\ UNCHANGED providerEverOk
    /\ UNCHANGED callerVars

\* a catch that leaves the loop (break) instead of going on
TargetedErrorAborts ==
    /\ mode = "targeted"
    /\ pc = "analyzed"
    /\ \/ analysis.status = "thrown"
       \/ analysis.status = "ok" /\ ~analysis.hasFit
    /\ log' = Append(log, LogEntry(i, current, "error"))
    /\ i' = Len(targetEmployees) + 1
    /\ pc' = "loop"
    /\ UNCHANGED <<targetEmployees, proposals, successCount, errorCount, pending,
                   result, providerEverOk>>
    /\ UNCHANGED inputVars
    /\ LeaveAnalyzeEmployee
    /\ analysis' = NoAnalysis

\* catch of the loop body: analyzeEmployee threw, or departmentFit is
\* undefined and the index access throws
TargetedError ==
    /\ mode = "targeted"
    /\ pc = "analyzed"
    /\ \/ analysis.status = "thrown"
       \/ analysis.status = "ok" /\ ~analysis.hasFit
    /\ log' = Append(log, LogEntry(i, current, "error"))
    /\ i' = i + 1
    /\ pc' = "loop"
    /\ UNCHANGED <<targetEmployees, proposals, successCount, errorCount, pending,
                   result, providerEverOk>>
    /\ UNCHANGED inputVars
    /\ LeaveAnalyzeEmployee
    /\ analysis' = NoAnalysis

\* targetFitScore, then the reasoning call
TargetedPropose ==
    /\ mode = "targeted"
    /\ pc = "analyzed"
    /\ analysis.status = "ok"
    /\ analysis.hasFit
    /\ pending' = [toDepartment |-> targetDepartment,
                   confidenceScore |->
                       TargetedConfidence(
                           TargetFitScore(analysis.departmentFit, targetDepartment))]
    /\ pc' = "reason"
    /\ UNCHANGED <<targetEmployees, i, proposals, successCount, errorCount, log,
                   result, providerEverOk>>
    /\ UNCHANGED inputVars
    /\ LeaveAnalyzeEmployee
    /\ UNCHANGED analysis

TargetedReturn ==
    /\ mode = "targeted"
    /\ pc = "loop"
    /\ i > Len(targetEmployees)
    /\ result' = [status |-> "returned", proposals |-> proposals]
    /\ pc' = "done"
    /\ UNCHANGED <<targetEmployees, i, proposals, successCount, errorCount,
                   pending, log, providerEverOk>>
    /\ UNCHANGED inputVars
    /\ UNCHANGED retryVars

Next ==
    \/ AnalyzeCall
    \/ ProviderCall
    \/ RespondOk
    \/ RespondFail
    \/ Backoff
    \/ AnalyzeReturn
    \/ BatchBegin
    \/ BatchFilter
    \/ BatchAnalyze
    \/ BatchError
    \/ BatchNoProposal
    \/ BatchPropose
    \/ ReasonReply
    \/ BatchReturn
    \/ TargetedBegin
    \/ TargetedSkip
    \/ TargetedAnalyze
    \/ TargetedError
    \/ TargetedPropose
    \/ TargetedReturn

Spec == Init /\ [][Next]_vars

\* ------------------------------------------------------------------------
\* analyzeEmployee alone, with its timers
\* ------------------------------------------------------------------------

InitRetry ==
    /\ Init
    /\ mode = "analyze"
    /\ provider = "any"

\* the setTimeout of the race fires before the provider has answered
TimerFires == RespondFail /\ lastError' = "timeout"

NextRetry ==
    \/ AnalyzeCall
    \/ ProviderCall
    \/ RespondOk
    \/ RespondFail
    \/ Backoff
    \/ AnalyzeReturn

\* the event loop runs every continuation that is ready, and both timers
\* (the 30 s of the race, the retryDelay of the backoff) fire; the provider
\* itself need never answer
FairRetry ==
    /\ WF_vars(AnalyzeCall)
    /\ WF_vars(ProviderCall)
    /\ WF_vars(TimerFires)
    /\ WF_vars(Backoff)
    /\ WF_vars(AnalyzeReturn)

SpecRetry == InitRetry /\ [][NextRetry]_vars /\ FairRetry

\* ------------------------------------------------------------------------
\* extractJSON
\* ------------------------------------------------------------------------

\* the analyzer is not running
AnalyzerIdle ==
    /\ mode = "none"
    /\ employees = <<>>
    /\ options = DefaultOptions
    /\ targetDepartment = ""
    /\ pc = "idle"
    /\ targetEmployees = <<>>
    /\ i = 1
    /\ proposals = <<>>
    /\ successCount = 0
    /\ errorCount = 0
    /\ attempt = 0
    /\ lastError = "null"
    /\ attemptLog = <<>>
    /\ analysis = NoAnalysis
    /\ pending = NoPending
    /\ log = <<>>
    /\ result = NoResult
    /\ provider = "any"
    /\ providerEverOk = FALSE

analyzerVars == <<mode, employees, options, targetDepartment, pc, targetEmployees,
                  i, proposals, successCount, errorCount, attempt, lastError,
                  attemptLog, analysis, pending, log, result, provider,
                  providerEverOk>>

\* .replace(/```json\n?/g, '')
RECURSIVE StripJsonFences(_)
StripJsonFences(ts) ==
    IF ts = <<>> THEN <<>>
    ELSE IF Len(ts) >= 2 /\ ts[1] = "fence" /\ ts[2] = "json"
         THEN IF Len(ts) >= 3 /\ ts[3] = "\n"
              THEN StripJsonFences(SubSeq(ts, 4, Len(ts)))
              ELSE StripJsonFences(SubSeq(ts, 3, Len(ts)))
         ELSE <<Head(ts)>> \o StripJsonFences(Tail(ts))

\* .replace(/```\n?/g, '')
RECURSIVE StripFences(_)
StripFences(ts) ==
    IF ts = <<>> THEN <<>>
    ELSE IF ts[1] = "fence"
         THEN IF Len(ts) >= 2 /\ ts[2] = "\n"
              THEN StripFences(SubSeq(ts, 3, Len(ts)))
              ELSE StripFences(Tail(ts))
         ELSE <<Head(ts)>> \o StripFences(Tail(ts))

\* String.prototype.trim
RECURSIVE Trim(_)
Trim(ts) ==
    IF ts = <<>> THEN <<>>
    ELSE IF Head(ts) = "\n" THEN Trim(Tail(ts))
    ELSE IF ts[Len(ts)] = "\n" THEN Trim(SubSeq(ts, 1, Len(ts) - 1))
    ELSE ts

\* cleanContent before the search for the braces
CleanContent(ts) == Trim(StripFences(StripJsonFences(ts)))

\* String.prototype.indexOf, 1-based; 0 stands for -1
IndexOf(ts, ch) ==
    IF \E k \in 1..Len(ts) : ts[k] = ch
    THEN CHOOSE k \in 1..Len(ts) :
            ts[k] = ch /\ \A j \in 1..(k - 1) : ts[j] # ch
    ELSE 0

\* the end of the slice taken at the first closing brace
LastIndexOfTakesFirst(ts, ch) == IndexOf(ts, ch)

\* String.prototype.lastIndexOf, 1-based; 0 stands for -1
LastIndexOf(ts, ch) ==
    IF \E k \in 1..Len(ts) : ts[k] = ch
    THEN CHOOSE k \in 1..Len(ts) :
            ts[k] = ch /\ \A j \in (k + 1)..Len(ts) : ts[j] # ch
    ELSE 0

\* the value of {}: key "a" absent, key "o" absent
EmptyObject == [a |-> FALSE, o |-> <<>>]

ParseFailure == [ok |-> FALSE, value |-> EmptyObject, next |-> 0]

RECURSIVE SkipWhitespace(_, _)
SkipWhitespace(ts, p) ==
    IF p <= Len(ts) /\ ts[p] = "\n" THEN SkipWhitespace(ts, p + 1) ELSE p

\* JSON.parse, the grammar of an object: '{' '}' or '{' member (',' member)* '}'
\* with whitespace between tokens; a repeated key keeps its last value
RECURSIVE ParseObject(_, _)
RECURSIVE ParseMembers(_, _, _)
ParseObject(ts, p0) ==
    LET p == SkipWhitespace(ts, p0)
    IN  IF p > Len(ts) \/ ts[p] # "{" THEN ParseFailure
        ELSE LET q == SkipWhitespace(ts, p + 1)
             IN  IF q <= Len(ts) /\ ts[q] = "}"
                 THEN [ok |-> TRUE, value |-> EmptyObject, next |-> q + 1]
                 ELSE ParseMembers(ts, q, EmptyObject)

ParseMembers(ts, p, acc) ==
    IF p > Len(ts) THEN ParseFailure
    ELSE LET member ==
                 IF ts[p] = "m"
                 THEN [ok |-> TRUE, value |-> [acc EXCEPT !.a = TRUE], next |-> p + 1]
                 ELSE IF ts[p] = "k"
                 THEN LET v == ParseObject(ts, p + 1)
                      IN  IF v.ok
                          THEN [ok |-> TRUE,
                                value |-> [acc EXCEPT !.o = <<v.value>>],
                                next |-> v.next]
                          ELSE ParseFailure
                 ELSE ParseFailure
         IN  IF ~member.ok THEN ParseFailure
             ELSE LET q == SkipWhitespace(ts, member.next)
                  IN  IF q > Len(ts) THEN ParseFailure
                      ELSE IF ts[q] = "}"
                      THEN [ok |-> TRUE, value |-> member.value, next |-> q + 1]
                      ELSE IF ts[q] = ","
                      THEN ParseMembers(ts, SkipWhitespace(ts, q + 1), member.value)
                      ELSE ParseFailure

\* JSON.parse(text): one value and nothing but whitespace after it
JSONParse(ts) ==
    LET v == ParseObject(ts, 1)
    IN  IF v.ok /\ SkipWhitespace(ts, v.next) > Len(ts) THEN v ELSE ParseFailure

\* new Error(`JSONの解析に失敗しました: ...`)
JsonParseError == [status |-> "thrown", kind |-> "JsonParseFailed"]

\* the whole of extractJSON: every throw inside the try block is rethrown
\* by the catch as the one Error
extractJSON(ts) ==
    LET cleanContent == CleanContent(ts)
        startIndex == IndexOf(cleanContent, "{")
        endIndex == LastIndexOf(cleanContent, "}")
    IN  IF startIndex = 0 \/ endIndex = 0 \/ startIndex >= endIndex
        THEN JsonParseError
        ELSE LET parsed == JSONParse(SubSeq(cleanContent, startIndex, endIndex))
             IN  IF parsed.ok THEN [status |-> "parsed", value |-> parsed.value]
                 ELSE JsonParseError

InitExtract ==
    /\ AnalyzerIdle
    /\ ServiceIdle
    /\ content \in Contents
    /\ extracted = NotExtracted

\* one call of extractJSON
ExtractCall ==
    /\ extracted = NotExtracted
    /\ extracted' = extractJSON(content)
    /\ UNCHANGED content
    /\ UNCHANGED analyzerVars
    /\ UNCHANGED <<storeVars, handlerVars, panel, cleared, auth>>

NextExtract == ExtractCall

SpecExtract == InitExtract /\ [][NextExtract]_vars

\* the proposals the operation returned
Returned == IF result.status = "returned" THEN result.proposals ELSE <<>>

\* ------------------------------------------------------------------------
\* DataStore, the candidates endpoint and the analyze endpoint
\* ------------------------------------------------------------------------

\* dataStore.getEmployees() after an upload, in roster order
Roster ==
    << [id |-> "E1", name |-> "Sato", department |-> "Sales"],
       [id |-> "E2", name |-> "Suzuki", department |-> "Engineering"] >>

\* dataStore.getDepartments().map((d) => d.name)
DepartmentOrder == <<"Sales", "Engineering">>

\* a proposal recorded by an earlier batch
OldProposal == MakeProposal(Roster[2], "Sales", 900, "model")

\* body.action of a candidates request
CandidateActions ==
    {"search", "refine", "generateProposals",
     "generateProposalsWithoutRelationships", "other"}

GeneratingActions == {"generateProposals", "generateProposalsWithoutRelationships"}

\* body.condition, as the set of department names the text contains
ConditionMentions == {{}, {"Engineering"}, {"Sales", "Engineering"}}

\* body.candidates: ids the client sends
CandidateIdSets == {{}, {"E1"}, {"E1", "E2"}, {"E2", UnknownId}}

\* the body of POST /api/analyze: options.maxEmployees and
\* options.maxProposals (0 when absent) and the fields
\* generateTransferProposals reads
AnalyzeBodies ==
    { [maxEmployees |-> 0, maxProposals |-> 0, analysis |-> DefaultOptions],
      [maxEmployees |-> 1, maxProposals |-> 0, analysis |-> DefaultOptions],
      [maxEmployees |-> 0, maxProposals |-> 1, analysis |-> DefaultOptions],
      [maxEmployees |-> 0, maxProposals |-> 0,
       analysis |-> [DefaultOptions EXCEPT !.naturalLanguageCondition = "text"]],
      [maxEmployees |-> 0, maxProposals |-> 0,
       analysis |-> [DefaultOptions EXCEPT
                        !.employeeIds = [present |-> TRUE, ids |-> {"E1", UnknownId}],
                        !.includeReasons = TRUE]] }

\* {options: {includeReasons: true, confidenceThreshold: 0.6}}
ConversationOptions == [DefaultOptions EXCEPT !.includeReasons = TRUE]

\* what a search, refine or department profiling call gets from the provider:
\* the call rejects, the content is empty, extractJSON throws, or a JSON object
\* naming ids, with or without a reasoning text
ConversationReplies ==
    {[kind |-> k, ids |-> {}, reasoning |-> "missing"] :
        k \in {"apiError", "empty", "unparseable"}}
        \cup {[kind |-> "json", ids |-> S, reasoning |-> t] :
                 S \in SUBSET {"E1", "E2", UnknownId}, t \in {"text", "missing"}}

\* loadDataFromFile / loadProposalsFromFile / loadMetricsFromFile inside
\* initialize(): outside production the file's content replaces the memory
\* when the file can be read
Loaded(f, memory) ==
    IF ~production /\ files[f].exists THEN files[f].content ELSE memory

\* this.data, as employees.json holds it
DataOf(emps, depts) == [employees |-> emps, departments |-> depts]

\* await dataStore.initialize()
Initialize ==
    /\ LET data == Loaded("employees", DataOf(storeData, storeDepartments))
       IN  /\ storeData' = data.employees
           /\ storeDepartments' = data.departments
    /\ storeProposals' = Loaded("proposals", storeProposals)
    /\ storeMetrics' = Loaded("metrics", storeMetrics)

\* saveProposalsToFile / saveMetricsToFile: the snapshot is taken at the
\* call, the write completes later; nothing is written in production
Saved(writes) == IF production THEN pendingWrites ELSE pendingWrites \cup writes

\* clearProposals that leaves the collection as it is
ClearProposalsKeeps(stored) == stored

\* this.proposals = []
ClearProposals(stored) == <<>>

\* this.proposals.push(...proposals)
AddProposals(stored, ps) == stored \o ps

\* employees.filter((emp) => candidates.includes(emp.id))
CandidateEmployees(roster, ids) == FilterByIds(roster, ids)

\* a lookup that returns the last department the condition contains
ExtractTargetDepartmentLast(mentions) ==
    IF \E k \in 1..Len(DepartmentOrder) : DepartmentOrder[k] \in mentions
    THEN DepartmentOrder[CHOOSE k \in 1..Len(DepartmentOrder) :
            /\ DepartmentOrder[k] \in mentions
            /\ \A j \in (k + 1)..Len(DepartmentOrder) :
                  DepartmentOrder[j] \notin mentions]
    ELSE ""

\* a lookup that falls back to the first department of the roster
ExtractTargetDepartmentDefaults(mentions) ==
    IF \E k \in 1..Len(DepartmentOrder) : DepartmentOrder[k] \in mentions
    THEN DepartmentOrder[CHOOSE k \in 1..Len(DepartmentOrder) :
            /\ DepartmentOrder[k] \in mentions
            /\ \A j \in 1..(k - 1) : DepartmentOrder[j] \notin mentions]
    ELSE DepartmentOrder[1]

\* extractTargetDepartment: the first department, in roster order, whose
\* name the condition contains; "" stands for null
ExtractTargetDepartment(mentions) ==
    IF \E k \in 1..Len(DepartmentOrder) : DepartmentOrder[k] \in mentions
    THEN DepartmentOrder[CHOOSE k \in 1..Len(DepartmentOrder) :
            /\ DepartmentOrder[k] \in mentions
            /\ \A j \in 1..(k - 1) : DepartmentOrder[j] \notin mentions]
    ELSE ""

\* let errorCount = 0 of the analyze handler, as generateMetrics receives it
requestErrorCount == 0

\* AIAnalyzer.generateMetrics: successRate in thousandths
GenerateMetrics(successfulProposals, errors) ==
    LET totalAttempts == successfulProposals + errors
    IN  [successRate |-> IF totalAttempts > 0
                         THEN (successfulProposals * 1000) \div totalAttempts
                         ELSE 0,
         errorCount |-> errors,
         dataSize |-> successfulProposals]

\* the analyzer is entered with these arguments
StartAnalyzer(m, emps, opts, dept) ==
    /\ mode' = m
    /\ employees' = emps
    /\ options' = opts
    /\ targetDepartment' = dept
    /\ pc' = "start"
    /\ targetEmployees' = emps
    /\ provider' = "few"
    /\ UNCHANGED <<i, proposals, successCount, errorCount, attempt, lastError,
                   attemptLog, analysis, pending, log, result, providerEverOk>>

\* employee.skills; the rows of Roster carry no experience column
Skills(employee) ==
    IF "skills" \in DOMAIN employee THEN employee.skills ELSE <<>>

\* requiredSkills.includes(skill)
Includes(list, x) == \E k \in 1..Len(list) : list[k] = x

\* a push of every skill, included already or not
PushAll(requiredSkills, skills) == requiredSkills \o skills

\* employee.skills.forEach: a skill is pushed when requiredSkills does not
\* include it yet
RECURSIVE PushNew(_, _)
PushNew(requiredSkills, skills) ==
    IF skills = <<>> THEN requiredSkills
    ELSE PushNew(IF Includes(requiredSkills, Head(skills)) THEN requiredSkills
                 ELSE Append(requiredSkills, Head(skills)),
                 Tail(skills))

\* the body of employees.forEach in extractDepartments: the department is
\* created at its first member, then the member's id and new skills are
\* pushed (the description, a text made of the name, is left out)
AddMember(depts, employee) ==
    LET known == \E k \in 1..Len(depts) : depts[k].name = employee.department
        withDept == IF known THEN depts
                    ELSE Append(depts, [name |-> employee.department,
                                        requiredSkills |-> <<>>,
                                        currentMembers |-> <<>>])
    IN  [k \in 1..Len(withDept) |->
            IF withDept[k].name = employee.department
            THEN [withDept[k] EXCEPT
                    !.currentMembers = Append(@, employee.id),
                    !.requiredSkills = PushNew(@, Skills(employee))]
            ELSE withDept[k]]

RECURSIVE ExtractDepartmentsFrom(_, _)
ExtractDepartmentsFrom(depts, emps) ==
    IF emps = <<>> THEN depts
    ELSE ExtractDepartmentsFrom(AddMember(depts, Head(emps)), Tail(emps))

\* extractDepartments: Array.from(departmentMap.values()), in the order the
\* departments first occur
ExtractDepartments(emps) == ExtractDepartmentsFrom(<<>>, emps)

\* the write of the proposals file that an earlier addProposals issued
OldWrite == [file |-> "proposals", content |-> <<OldProposal>>]

\* the store before the first request under observation: in production
\* nothing is on disk; otherwise the files mirror the memory, or the write
\* of the earlier proposal is still in flight and the proposals file holds
\* the empty list an earlier generation left
InitApi ==
    /\ AnalyzerIdle
    /\ ExtractIdle
    /\ production \in BOOLEAN
    /\ storeData \in {<<>>, Roster}
    /\ storeDepartments = ExtractDepartments(storeData)
    /\ storeProposals \in {<<>>, <<OldProposal>>}
    /\ storeMetrics = <<>>
    /\ pendingWrites \in
          {{}} \cup (IF /\ ~production
                        /\ storeData = Roster
                        /\ storeProposals = <<OldProposal>>
                     THEN {{OldWrite}} ELSE {})
    /\ files = [f \in FileNames |->
                  IF production THEN NoFile
                  ELSE IF f = "employees" /\ storeData # <<>>
                  THEN [exists |-> TRUE,
                        content |-> DataOf(storeData, storeDepartments)]
                  ELSE IF f = "proposals" /\ pendingWrites # {}
                  THEN [exists |-> TRUE, content |-> <<>>]
                  ELSE IF f = "proposals" /\ storeProposals # <<>>
                  THEN [exists |-> TRUE, content |-> storeProposals]
                  ELSE NoFile]
    /\ request = NoRequest
    /\ apc = "idle"
    /\ response = NoResponse
    /\ opCalls = <<>>
    /\ opResult = NoOpResult
    /\ proposalsBefore = <<>>
    /\ served = FALSE
    /\ panel = "idle"
    /\ cleared = FALSE
    /\ auth = AuthIdle

\* a roster check that lets every request through
NoRosterNever(data) == FALSE

\* employees.length === 0, the check both endpoints make after initialize()
NoRoster(data) == data = <<>>

\* NextResponse.json({error: ...}, {status})
ErrorResponse(status) == [NoResponse EXCEPT !.status = status]

\* POST /api/candidates up to the first model call: initialize, the roster
\* check and the switch on action
CandidatesPost(action, mentions, cands) ==
    /\ apc = "idle"
    /\ action \in GeneratingActions => ~served
    /\ Initialize
    /\ request' = [NoRequest EXCEPT !.endpoint = "candidates", !.action = action,
                                    !.mentions = mentions, !.candidates = cands]
    /\ proposalsBefore' = storeProposals'
    /\ LET target == ExtractTargetDepartment(mentions)
           candidateEmployees == CandidateEmployees(storeData', cands)
       IN  IF NoRoster(storeData')
           THEN /\ response' = ErrorResponse(400)
                /\ apc' = "responded"
                /\ UNCHANGED <<served, analyzerVars>>
           ELSE IF action = "search"
           THEN /\ apc' = "search"
                /\ UNCHANGED <<response, served, analyzerVars>>
           ELSE IF action = "refine"
           THEN /\ apc' = "refine"
                /\ UNCHANGED <<response, served, analyzerVars>>
           ELSE IF action = "generateProposals" /\ target = ""
           THEN \* generateTransferProposalsWithRelationships is not a function
                /\ response' = ErrorResponse(500)
                /\ apc' = "responded"
                /\ UNCHANGED <<served, analyzerVars>>
           ELSE IF action \in GeneratingActions
           THEN /\ IF target # ""
                   THEN StartAnalyzer("targeted", candidateEmployees,
                                      DefaultOptions, target)
                   ELSE StartAnalyzer("batch", candidateEmployees,
                                      ConversationOptions, "")
                /\ apc' = "generate"
                /\ served' = TRUE
                /\ UNCHANGED response
           ELSE /\ response' = ErrorResponse(400)
                /\ apc' = "responded"
                /\ UNCHANGED <<served, analyzerVars>>
    /\ UNCHANGED <<panel, cleared, auth, auth>>
    /\ UNCHANGED <<production, files, pendingWrites, opCalls, opResult>>
    /\ UNCHANGED extractVars

\* a search that calls the provider again after a failed call
SearchReplyRetries ==
    /\ apc = "search"
    /\ \E r \in ConversationReplies :
          /\ opCalls' = Append(opCalls, r)
          /\ IF r.kind = "json"
             THEN /\ opResult' =
                        [status |-> "returned",
                         candidates |-> FilterByIds(storeData, r.ids),
                         reasoning |-> IF r.reasoning = "text" THEN "model"
                                       ELSE "default"]
                  /\ response' = [NoResponse EXCEPT
                                    !.status = 200,
                                    !.candidates = opResult'.candidates,
                                    !.reasoning = opResult'.reasoning]
                  /\ apc' = "responded"
             ELSE IF Len(opCalls) + 1 < maxRetries
             THEN UNCHANGED <<opResult, response, apc>>
             ELSE /\ opResult' = [NoOpResult EXCEPT !.status = "thrown"]
                  /\ response' = ErrorResponse(500)
                  /\ apc' = "responded"
    /\ UNCHANGED <<request, proposalsBefore, served>>
    /\ UNCHANGED <<storeVars, extractVars, analyzerVars>>
    /\ UNCHANGED <<panel, cleared, auth, auth>>

\* findCandidatesWithCondition from its one provider call on, and the
\* response of the 'search' case: a failure is rethrown and becomes the 500
\* of the handler's catch
SearchReply ==
    /\ apc = "search"
    /\ \E r \in ConversationReplies :
          /\ opCalls' = Append(opCalls, r)
          /\ IF r.kind = "json"
             THEN /\ opResult' =
                        [status |-> "returned",
                         candidates |-> FilterByIds(storeData, r.ids),
                         reasoning |-> IF r.reasoning = "text" THEN "model"
                                       ELSE "default"]
                  /\ response' = [NoResponse EXCEPT
                                    !.status = 200,
                                    !.candidates = opResult'.candidates,
                                    !.reasoning = opResult'.reasoning]
             ELSE /\ opResult' = [NoOpResult EXCEPT !.status = "thrown"]
                  /\ response' = ErrorResponse(500)
    /\ apc' = "responded"
    /\ UNCHANGED <<request, proposalsBefore, served>>
    /\ UNCHANGED <<storeVars, extractVars, analyzerVars>>
    /\ UNCHANGED <<panel, cleared, auth, auth>>

\* a refineCandidate that makes a candidate of every id the reply names
RefinedTrustsModel(candidates, r) ==
    IF r.kind = "json"
    THEN [status |-> "returned",
          candidates |->
              IF UnknownId \in r.ids
              THEN Append(FilterByIds(candidates, r.ids),
                          [id |-> UnknownId, name |-> "", department |-> ""])
              ELSE FilterByIds(candidates, r.ids),
          reasoning |-> IF r.reasoning = "text" THEN "model" ELSE "default"]
    ELSE [status |-> "returned", candidates |-> candidates,
          reasoning |-> "fallback"]

\* a refineCandidate whose fallback hands the candidates back last-first
RefinedReversesOnFailure(candidates, r) ==
    IF r.kind = "json"
    THEN [status |-> "returned",
          candidates |-> FilterByIds(candidates, r.ids),
          reasoning |-> IF r.reasoning = "text" THEN "model" ELSE "default"]
    ELSE [status |-> "returned",
          candidates |-> [k \in 1..Len(candidates) |->
                             candidates[Len(candidates) + 1 - k]],
          reasoning |-> "fallback"]

\* what refineCandidate returns for a reply
Refined(candidates, r) ==
    IF r.kind = "json"
    THEN [status |-> "returned",
          candidates |-> FilterByIds(candidates, r.ids),
          reasoning |-> IF r.reasoning = "text" THEN "model" ELSE "default"]
    ELSE [status |-> "returned", candidates |-> candidates,
          reasoning |-> "fallback"]

\* a refineCandidate that picks the named employees from the whole roster
RefineReplyFromRoster ==
    /\ apc = "refine"
    /\ \E r \in ConversationReplies :
          /\ opCalls' = Append(opCalls, r)
          /\ opResult' = Refined(storeData, r)
    /\ response' = [NoResponse EXCEPT !.status = 200,
                                      !.candidates = opResult'.candidates,
                                      !.reasoning = opResult'.reasoning]
    /\ apc' = "responded"
    /\ UNCHANGED <<request, proposalsBefore, served>>
    /\ UNCHANGED <<storeVars, extractVars, analyzerVars>>
    /\ UNCHANGED <<panel, cleared, auth, auth>>

\* a refineCandidate whose catch rethrows
RefineReplyRethrows ==
    /\ apc = "refine"
    /\ \E r \in ConversationReplies :
          /\ opCalls' = Append(opCalls, r)
          /\ IF r.kind = "json"
             THEN /\ opResult' =
                        Refined(CandidateEmployees(storeData, request.candidates), r)
                  /\ response' = [NoResponse EXCEPT
                                    !.status = 200,
                                    !.candidates = opResult'.candidates,
                                    !.reasoning = opResult'.reasoning]
             ELSE /\ opResult' = [NoOpResult EXCEPT !.status = "thrown"]
                  /\ response' = ErrorResponse(500)
    /\ apc' = "responded"
    /\ UNCHANGED <<request, proposalsBefore, served>>
    /\ UNCHANGED <<storeVars, extractVars, analyzerVars>>
    /\ UNCHANGED <<panel, cleared, auth, auth>>

\* the 'refine' case: candidateEmployees, refineCandidate from its one
\* provider call on, and the response
RefineReply ==
    /\ apc = "refine"
    /\ \E r \in ConversationReplies :
          /\ opCalls' = Append(opCalls, r)
          /\ opResult' =
                Refined(CandidateEmployees(storeData, request.candidates), r)
    /\ response' = [NoResponse EXCEPT !.status = 200,
                                      !.candidates = opResult'.candidates,
                                      !.reasoning = opResult'.reasoning]
    /\ apc' = "responded"
    /\ UNCHANGED <<request, proposalsBefore, served>>
    /\ UNCHANGED <<storeVars, extractVars, analyzerVars>>
    /\ UNCHANGED <<panel, cleared, auth, auth>>

\* a direct call of analyzeDepartmentRequirements
DepartmentCall ==
    /\ apc = "idle"
    /\ request' = [NoRequest EXCEPT !.endpoint = "analyzer",
                                    !.action = "analyzeDepartmentRequirements"]
    /\ apc' = "department"
    /\ UNCHANGED <<response, opCalls, opResult, proposalsBefore, served>>
    /\ UNCHANGED <<storeVars, extractVars, analyzerVars>>
    /\ UNCHANGED <<panel, cleared, auth, auth>>

\* its one provider call: the analysis, or the rethrown Error
DepartmentReply ==
    /\ apc = "department"
    /\ \E r \in ConversationReplies :
          /\ opCalls' = Append(opCalls, r)
          /\ opResult' = [NoOpResult EXCEPT
                            !.status = IF r.kind = "json" THEN "returned"
                                       ELSE "thrown"]
    /\ apc' = "responded"
    /\ UNCHANGED <<request, response, proposalsBefore, served>>
    /\ UNCHANGED <<storeVars, extractVars, analyzerVars>>
    /\ UNCHANGED <<panel, cleared, auth, auth>>

\* the generator has returned: clearProposals, addProposals, the response
GenerateFinish ==
    /\ apc = "generate"
    /\ pc = "done"
    /\ storeProposals' = AddProposals(ClearProposals(storeProposals), Returned)
    /\ pendingWrites' =
          Saved({[file |-> "proposals", content |-> storeProposals']})
    /\ response' = [NoResponse EXCEPT !.status = 200, !.proposals = Returned]
    /\ apc' = "responded"
    /\ UNCHANGED <<production, storeData, storeDepartments, storeMetrics, files>>
    /\ UNCHANGED <<request, opCalls, opResult, proposalsBefore, served>>
    /\ UNCHANGED <<extractVars, analyzerVars>>
    /\ UNCHANGED panel
    /\ cleared' = FALSE
    /\ UNCHANGED auth

\* employees.slice(0, maxEmployees) when the option is set and positive
Sliced(list, maxEmployees) ==
    IF maxEmployees > 0 THEN SubSeq(list, 1, Min(maxEmployees, Len(list)))
    ELSE list

\* POST /api/analyze up to the call of generateTransferProposals
AnalyzePost(body) ==
    /\ apc = "idle"
    /\ ~served
    /\ Initialize
    /\ request' = [NoRequest EXCEPT !.endpoint = "analyze", !.action = "POST",
                                    !.body = body]
    /\ proposalsBefore' = storeProposals'
    /\ IF NoRoster(storeData')
       THEN /\ response' = ErrorResponse(400)
            /\ apc' = "responded"
            /\ UNCHANGED <<served, analyzerVars>>
       ELSE /\ StartAnalyzer("batch", Sliced(storeData', body.maxEmployees),
                             body.analysis, "")
            /\ apc' = "analyze"
            /\ served' = TRUE
            /\ UNCHANGED response
    /\ panel' = "analyzing"
    /\ UNCHANGED <<cleared, auth>>
    /\ UNCHANGED <<production, files, pendingWrites, opCalls, opResult>>
    /\ UNCHANGED extractVars

\* generateMetrics, addProposals, addMetrics and the response
AnalyzeFinish ==
    /\ apc = "analyze"
    /\ pc = "done"
    /\ LET metrics == GenerateMetrics(Len(Returned), requestErrorCount)
       IN  /\ storeProposals' = AddProposals(storeProposals, Returned)
           /\ storeMetrics' = Append(storeMetrics, metrics)
           /\ response' = [NoResponse EXCEPT !.status = 200,
                                             !.proposals = Returned,
                                             !.metrics = <<metrics>>]
    /\ pendingWrites' =
          Saved({[file |-> "proposals", content |-> storeProposals'],
                 [file |-> "metrics", content |-> storeMetrics']})
    /\ apc' = "responded"
    /\ UNCHANGED <<production, storeData, storeDepartments, files>>
    /\ UNCHANGED <<request, opCalls, opResult, proposalsBefore, served>>
    /\ UNCHANGED <<extractVars, analyzerVars>>
    /\ UNCHANGED panel
    /\ cleared' = FALSE
    /\ UNCHANGED auth

\* GET /api/analyze
AnalyzeGet ==
    /\ apc = "idle"
    /\ Initialize
    /\ request' = [NoRequest EXCEPT !.endpoint = "analyze", !.action = "GET"]
    /\ proposalsBefore' = storeProposals'
    /\ response' = [NoResponse EXCEPT !.status = 200,
                                      !.proposals = storeProposals',
                                      !.metrics = storeMetrics']
    /\ apc' = "responded"
    /\ UNCHANGED <<panel, cleared, auth, auth>>
    /\ UNCHANGED <<production, files, pendingWrites, opCalls, opResult, served>>
    /\ UNCHANGED <<extractVars, analyzerVars>>

\* GET /api/data: initialize, then the data when getData() is not null
DataGet ==
    /\ apc = "idle"
    /\ Initialize
    /\ request' = [NoRequest EXCEPT !.endpoint = "data", !.action = "GET"]
    /\ proposalsBefore' = storeProposals'
    /\ response' = IF NoRoster(storeData')
                   THEN [NoResponse EXCEPT !.status = 200]
                   ELSE [NoResponse EXCEPT !.status = 200, !.success = TRUE,
                                           !.employees = storeData']
    /\ apc' = "responded"
    /\ UNCHANGED <<panel, cleared, auth, auth>>
    /\ UNCHANGED <<production, files, pendingWrites, opCalls, opResult, served>>
    /\ UNCHANGED <<extractVars, analyzerVars>>

\* DELETE /api/data: clearData() empties the store's memory; it does not
\* initialize, and it neither writes nor removes a file
DataDelete ==
    /\ apc = "idle"
    /\ storeData' = <<>>
    /\ storeDepartments' = <<>>
    /\ storeProposals' = <<>>
    /\ storeMetrics' = <<>>
    /\ request' = [NoRequest EXCEPT !.endpoint = "data", !.action = "DELETE"]
    /\ proposalsBefore' = <<>>
    /\ response' = [NoResponse EXCEPT !.status = 200, !.success = TRUE]
    /\ apc' = "responded"
    /\ cleared' = TRUE
    /\ UNCHANGED auth
    /\ UNCHANGED panel
    /\ UNCHANGED <<production, files, pendingWrites, opCalls, opResult, served>>
    /\ UNCHANGED <<extractVars, analyzerVars>>

\* an fs.writeFile issued by a save completes
WriteCompletes ==
    /\ \E w \in pendingWrites :
          /\ files' = [files EXCEPT ![w.file] =
                          [exists |-> TRUE, content |-> w.content]]
          /\ pendingWrites' = pendingWrites \ {w}
    /\ UNCHANGED <<production, storeData, storeDepartments, storeProposals,
                   storeMetrics>>
    /\ UNCHANGED <<handlerVars, panel, cleared, auth, extractVars, analyzerVars>>

\* the panel's timer of 600000 ms fires while its fetch is pending:
\* controller.abort() and the timeout message; the handler is not told
Deadline ==
    /\ panel = "analyzing"
    /\ panel' = "timedOut"
    /\ UNCHANGED <<storeVars, handlerVars, cleared, auth, extractVars, analyzerVars>>

\* the locals of the analyzer operation go out of scope
LeaveAnalyzer ==
    /\ mode' = "none"
    /\ employees' = <<>>
    /\ options' = DefaultOptions
    /\ targetDepartment' = ""
    /\ pc' = "idle"
    /\ targetEmployees' = <<>>
    /\ i' = 1
    /\ proposals' = <<>>
    /\ successCount' = 0
    /\ errorCount' = 0
    /\ attempt' = 0
    /\ lastError' = "null"
    /\ attemptLog' = <<>>
    /\ analysis' = NoAnalysis
    /\ pending' = NoPending
    /\ log' = <<>>
    /\ result' = NoResult
    /\ provider' = "any"
    /\ providerEverOk' = FALSE

\* the handler has returned; its locals and the analyzer's are gone
HandlerReturn ==
    /\ apc = "responded"
    /\ apc' = "idle"
    /\ request' = NoRequest
    /\ response' = NoResponse
    /\ opCalls' = <<>>
    /\ opResult' = NoOpResult
    /\ proposalsBefore' = <<>>
    /\ LeaveAnalyzer
    /\ panel' = IF panel # "analyzing" THEN panel
                ELSE IF response.status = 200 THEN "done"
                ELSE "error"
    /\ UNCHANGED <<served, cleared, auth>>
    /\ UNCHANGED <<storeVars, extractVars>>

NextApi ==
    \/ \E action \in CandidateActions, mentions \in ConditionMentions,
          cands \in CandidateIdSets : CandidatesPost(action, mentions, cands)
    \/ SearchReply
    \/ RefineReply
    \/ DepartmentCall
    \/ DepartmentReply
    \/ GenerateFinish
    \/ \E body \in AnalyzeBodies : AnalyzePost(body)
    \/ AnalyzeFinish
    \/ AnalyzeGet
    \/ DataGet
    \/ DataDelete
    \/ WriteCompletes
    \/ Deadline
    \/ HandlerReturn
    \/ ProviderCall
    \/ RespondOk
    \/ RespondFail
    \/ Backoff
    \/ BatchBegin
    \/ BatchFilter
    \/ BatchAnalyze
    \/ BatchError
    \/ BatchNoProposal
    \/ BatchPropose
    \/ ReasonReply
    \/ BatchReturn
    \/ TargetedBegin
    \/ TargetedSkip
    \/ TargetedAnalyze
    \/ TargetedError
    \/ TargetedPropose
    \/ TargetedReturn

SpecApi == InitApi /\ [][NextApi]_vars

\* ------------------------------------------------------------------------
\* Imports: POST /api/load-excel, parseExcelFile and DataStore.setData
\* ------------------------------------------------------------------------

\* the experience cell of a row, as the pieces between which parseSkills
\* splits; "," stands for any of the separators
ExperienceTexts ==
    { <<>>, <<"java">>, <<"java", ",", "java">>, <<"java", ",", "sql">>,
      <<"sql", ",">>, <<"sql", ",", "java">> }

\* the department cell; "" is an empty cell
DepartmentCells == {"Sales", "Engineering", ""}

\* the sheets read: one or two rows
Sheets ==
    LET Row(id, name) ==
            {[id |-> id, name |-> name, department |-> d, experience |-> x] :
                d \in DepartmentCells, x \in ExperienceTexts}
    IN  {<<r>> : r \in Row("E1", "Sato")}
            \cup {<<r1, r2>> : r1 \in Row("E1", "Sato"), r2 \in Row("E2", "Suzuki")}

\* parseSkills: split at the separators, trim, drop the empty pieces
ParseSkills(skillsText) == SelectSeq(skillsText, LAMBDA piece : piece # ",")

\* convertRowToEmployee and the filter that drops its nulls: a row without
\* id, name or department gives no employee
RECURSIVE ConvertRows(_)
ConvertRows(rows) ==
    IF rows = <<>> THEN <<>>
    ELSE LET row == Head(rows)
         IN  (IF row.id = "" \/ row.name = "" \/ row.department = ""
              THEN <<>>
              ELSE <<[id |-> row.id, name |-> row.name,
                      department |-> row.department,
                      skills |-> ParseSkills(row.experience)]>>)
                 \o ConvertRows(Tail(rows))

InitImport ==
    /\ AnalyzerIdle
    /\ ExtractIdle
    /\ production \in BOOLEAN
    /\ storeData = <<>>
    /\ storeDepartments = <<>>
    /\ storeProposals = <<>>
    /\ storeMetrics = <<>>
    /\ files = [f \in FileNames |-> NoFile]
    /\ pendingWrites = {}
    /\ request = NoRequest
    /\ apc = "none"
    /\ response = NoResponse
    /\ opCalls = <<>>
    /\ opResult = NoOpResult
    /\ proposalsBefore = <<>>
    /\ served = FALSE
    /\ panel = "idle"
    /\ cleared = FALSE
    /\ auth = AuthIdle

\* POST /api/load-excel with a file: parseExcelFile, which throws when no
\* row gives an employee (the store is then left as it is), and setData,
\* which replaces this.data and starts the write of employees.json. The
\* next import is taken up when the write of the last one has completed.
ImportPost(rows) ==
    /\ apc = "none"
    /\ pendingWrites = {}
    /\ LET emps == ConvertRows(rows)
       IN  IF emps = <<>>
           THEN UNCHANGED <<storeData, storeDepartments, pendingWrites>>
           ELSE /\ storeData' = emps
                /\ storeDepartments' = ExtractDepartments(emps)
                /\ pendingWrites' =
                      Saved({[file |-> "employees",
                              content |-> DataOf(storeData', storeDepartments')]})
    /\ UNCHANGED <<production, storeProposals, storeMetrics, files>>
    /\ UNCHANGED <<handlerVars, panel, cleared, auth, extractVars, analyzerVars>>

NextImport ==
    \/ \E rows \in Sheets : ImportPost(rows)
    \/ WriteCompletes

SpecImport == InitImport /\ [][NextImport]_vars

\* ------------------------------------------------------------------------
\* Authentication: the middleware and POST /api/auth/login
\* ------------------------------------------------------------------------

\* 'admin'
Admin == <<97, 100, 109, 105, 110>>

\* 'authenticated', the value of the auth-token cookie
Authenticated == <<97, 117, 116, 104, 101, 110, 116, 105, 99, 97, 116, 101, 100>>

\* process.env: BASIC_AUTH_USERNAME unset, empty or "root"; BASIC_AUTH_PASSWORD
\* unset or "pw"
EnvSettings ==
    [username : {Undefined, <<>>, <<114, 111, 111, 116>>},
     password : {Undefined, <<112, 119>>}]

\* request.nextUrl.pathname, cut where the code and the documentation cut it:
\* /login, /api/auth/login, /api/authorize, / and /api/data
AuthPaths ==
    {<<"/login">>, <<"/api/auth", "/", "login">>, <<"/api/auth", "orize">>,
     <<"/">>, <<"/api/data">>}

\* the auth-token cookie: absent, 'authenticated' or another value
AuthCookies == {Undefined, Authenticated, <<120>>}

\* the authorization header: absent, of another scheme, or "Basic " followed
\* by the base64 text of these octets: a user ("admin", "admin" with the high
\* bit of its first octet set, "root", "g"), with or without ":", a password
\* ("", "pw", "x"), with or without a further ":x"
AuthHeaders ==
    {[scheme |-> "none", payload |-> <<>>], [scheme |-> "Bearer", payload |-> <<>>]}
    \cup
    {[scheme |-> "Basic", payload |-> u \o c \o w \o x] :
        u \in {Admin, <<225, 100, 109, 105, 110>>, <<114, 111, 111, 116>>, <<103>>},
        c \in {<<>>, <<58>>},
        w \in {<<>>, <<112, 119>>, <<120>>},
        x \in {<<>>, <<58, 120>>}}

\* the body of the login request: unparsable, or an object whose username
\* and password are each absent or a string
LoginBodies ==
    [valid : {TRUE}, username : {Undefined, Admin, <<103>>},
     password : {Undefined, <<112, 119>>, <<120>>}]
    \cup {[valid |-> FALSE, username |-> Undefined, password |-> Undefined]}

\* Buffer.toString('ascii'): the highest bit of every octet is unset
ToAscii(octets) == [k \in 1..Len(octets) |-> octets[k] % 128]

\* String.prototype.split(':')
RECURSIVE Split(_)
Split(text) ==
    IF \E k \in 1..Len(text) : text[k] = 58
    THEN LET k == CHOOSE k \in 1..Len(text) :
                      text[k] = 58 /\ \A j \in 1..(k - 1) : text[j] # 58
         IN  <<SubSeq(text, 1, k - 1)>> \o Split(SubSeq(text, k + 1, Len(text)))
    ELSE <<text>>

\* String.prototype.startsWith
StartsWith(text, prefix) ==
    Len(text) >= Len(prefix) /\ SubSeq(text, 1, Len(prefix)) = prefix

\* validateBasicAuth: [username, password] are the first two pieces of the
\* decoded credentials, password undefined when there is no second piece
validateBasicAuth(header, env) ==
    IF header.scheme # "Basic" THEN FALSE
    ELSE LET pieces == Split(ToAscii(header.payload))
             username == pieces[1]
             password == IF Len(pieces) >= 2 THEN pieces[2] ELSE Undefined
             validUsername == IF env.username \in {Undefined, <<>>} THEN Admin
                              ELSE env.username
             validPassword == env.password
         IN  username = validUsername /\ password = validPassword

\* isAuthenticatedFromCookie
isAuthenticatedFromCookie(cookie) == cookie = Authenticated

InitAuth ==
    /\ AnalyzerIdle
    /\ ExtractIdle
    /\ production = TRUE
    /\ storeData = <<>>
    /\ storeDepartments = <<>>
    /\ storeProposals = <<>>
    /\ storeMetrics = <<>>
    /\ files = [f \in FileNames |-> NoFile]
    /\ pendingWrites = {}
    /\ request = NoRequest
    /\ apc = "none"
    /\ response = NoResponse
    /\ opCalls = <<>>
    /\ opResult = NoOpResult
    /\ proposalsBefore = <<>>
    /\ served = FALSE
    /\ panel = "idle"
    /\ cleared = FALSE
    /\ \E env \in EnvSettings : auth = [AuthIdle EXCEPT !.env = env]

\* the middleware on one request
Middleware(path, cookie, header) ==
    /\ auth' =
          [AuthIdle EXCEPT
              !.env = auth.env, !.kind = "middleware", !.path = path,
              !.cookie = cookie, !.header = header,
              !.outcome =
                  IF path = <<"/login">> THEN "next"
                  ELSE IF StartsWith(path, <<"/api/auth">>) THEN "next"
                  ELSE IF isAuthenticatedFromCookie(cookie) THEN "next"
                  ELSE IF validateBasicAuth(header, auth.env) THEN "next"
                  ELSE "redirect",
              !.setCookie =
                  /\ path # <<"/login">>
                  /\ ~StartsWith(path, <<"/api/auth">>)
                  /\ ~isAuthenticatedFromCookie(cookie)
                  /\ validateBasicAuth(header, auth.env)]
    /\ UNCHANGED <<extractVars, storeVars, handlerVars, panel, cleared>>
    /\ UNCHANGED analyzerVars

\* POST /api/auth/login
LoginPost(body) ==
    /\ LET validUsername == IF auth.env.username \in {Undefined, <<>>} THEN Admin
                            ELSE auth.env.username
           validPassword == auth.env.password
           accepted == /\ body.valid
                       /\ body.username = validUsername
                       /\ body.password = validPassword
       IN  auth' =
              [AuthIdle EXCEPT
                  !.env = auth.env, !.kind = "login", !.body = body,
                  !.outcome = IF ~body.valid THEN "error"
                              ELSE IF accepted THEN "ok"
                              ELSE "unauthorized",
                  !.setCookie = accepted]
    /\ UNCHANGED <<extractVars, storeVars, handlerVars, panel, cleared>>
    /\ UNCHANGED analyzerVars

NextAuth ==
    \/ \E path \in AuthPaths, cookie \in AuthCookies, header \in AuthHeaders :
          Middleware(path, cookie, header)
    \/ \E body \in LoginBodies : LoginPost(body)

SpecAuth == InitAuth /\ [][NextAuth]_vars

\* ------------------------------------------------------------------------
\* Properties
\* ------------------------------------------------------------------------


DepartmentOf(id) == (CHOOSE e \in EmployeePool : e.id = id).department

IsFailure(ev) == ev.kind \in FailureMessages

\* C1: every proposal, accumulated or returned, in batch and in targeted
\* mode, has toDepartment different from fromDepartment, and fromDepartment
\* is the current department of the employee it is about.
C1_TargetDiffersFromSource ==
    \A ps \in {proposals, Returned} :
        \A k \in 1..Len(ps) :
            /\ ps[k].toDepartment # ps[k].fromDepartment
            /\ ps[k].fromDepartment = DepartmentOf(ps[k].employeeId)

\* a batch run has returned proposals for a Sales and for an Engineering
\* employee
C1_Witness ==
    /\ mode = "batch"
    /\ pc = "done"
    /\ Len(Returned) = 2
    /\ Returned[1].fromDepartment = "Sales"
    /\ Returned[2].fromDepartment = "Engineering"

\* C2: every proposal has a confidenceScore in [0, 1].
C2_ConfidenceInUnitRange ==
    \A k \in 1..Len(proposals) :
        /\ proposals[k].confidenceScore >= 0
        /\ proposals[k].confidenceScore <= 1000

\* C3: every proposal's confidenceScore has two decimal places
\* (confidenceScore * 100 is an integer).
C3_ConfidenceHasTwoDecimals ==
    \A k \in 1..Len(proposals) : proposals[k].confidenceScore % 10 = 0

\* C4: no provider call follows a successful attempt, and analyzeEmployee
\* ends with the analysis parsed from its successful attempt (also when
\* that attempt is the third, after two failures); it throws only when its
\* last attempt failed.
C4_FirstSuccessIsReturned ==
    /\ \A k \in 1..(Len(ProviderCalls) - 1) : IsFailure(ProviderCalls[k])
    /\ pc = "analyzed" =>
          LET last == ProviderCalls[Len(ProviderCalls)]
          IN  IF last.kind = "ok"
              THEN /\ analysis.status = "ok"
                   /\ analysis.hasFit = last.reply.hasFit
                   /\ analysis.departmentFit = last.reply.departmentFit
              ELSE analysis.status = "thrown"

\* two failed attempts, then a third that succeeds and is returned
C4_Witness ==
    /\ pc = "analyzed"
    /\ Len(ProviderCalls) = 3
    /\ IsFailure(ProviderCalls[1])
    /\ IsFailure(ProviderCalls[2])
    /\ ProviderCalls[3].kind = "ok"
    /\ analysis.status = "ok"
    /\ analysis.hasFit

\* C5: analyzeEmployee never issues a fourth provider call; when every
\* attempt failed it has issued exactly 3 and throws an error that carries
\* the employee's name and the message of the third failure.
C5_ThreeFailuresThenError ==
    /\ Len(ProviderCalls) <= 3
    /\ (pc = "analyzed" /\ \A k \in 1..Len(ProviderCalls) : IsFailure(ProviderCalls[k]))
          => /\ Len(ProviderCalls) = 3
             /\ analysis.status = "thrown"
             /\ analysis.employeeName = current.name
             /\ analysis.cause = ProviderCalls[3].kind
    /\ (mode = "analyze" /\ pc = "done" /\ ProviderCalls[Len(ProviderCalls)].kind # "ok")
          => /\ result.status = "thrown"
             /\ result.employeeName = employees[1].name
             /\ result.cause = ProviderCalls[3].kind

\* a direct call whose three attempts fail in three different ways
C5_Witness ==
    /\ mode = "analyze"
    /\ pc = "done"
    /\ Len(ProviderCalls) = 3
    /\ ProviderCalls[1].kind = "apiError"
    /\ ProviderCalls[2].kind = "badContent"
    /\ ProviderCalls[3].kind = "timeout"
    /\ result.status = "thrown"
    /\ result.cause = "timeout"

Outcomes(kind) == {k \in 1..Len(log) : log[k].outcome = kind}

\* C6: a batch run in which no provider call succeeded returns normally,
\* with no proposal and an error count equal to the number of employees it
\* was given (of those the id filter kept, when options.employeeIds is set).
C6_AllFailuresAreCounted ==
    (mode = "batch" /\ pc = "done" /\ ~providerEverOk)
        => /\ result.status = "returned"
           /\ result.proposals = <<>>
           /\ errorCount = Len(IdFiltered(employees, options))
           /\ ~options.employeeIds.present => errorCount = Len(employees)

\* two employees, a condition whose filter call failed as well, two errors
C6_Witness ==
    /\ mode = "batch"
    /\ pc = "done"
    /\ ~providerEverOk
    /\ options.naturalLanguageCondition = "text"
    /\ Len(employees) = 2
    /\ errorCount = 2
    /\ result.status = "returned"

\* C7: in batch and targeted mode the loop handles the list entries one by
\* one, each exactly once and in order, whatever failed before; the call
\* returns normally, and only the entries that ended with a proposal
\* contribute one.
C7_FailureDoesNotAbort ==
    mode \in {"batch", "targeted"}
        => /\ Len(log) = i - 1
           /\ \A k \in 1..Len(log) :
                 /\ log[k].index = k
                 /\ log[k].employeeId = targetEmployees[k].id
           /\ Len(proposals) = Cardinality(Outcomes("proposal"))
           /\ mode = "batch" => errorCount = Cardinality(Outcomes("error"))
           /\ pc = "done"
                 => /\ result.status = "returned"
                    /\ result.proposals = proposals
                    /\ Len(log) = Len(targetEmployees)

\* the first employee failed, the second one got its proposal
C7_Witness ==
    /\ mode = "batch"
    /\ pc = "done"
    /\ Len(log) = 2
    /\ log[1].outcome = "error"
    /\ log[2].outcome = "proposal"
    /\ Len(Returned) = 1
    /\ Returned[1].employeeId = targetEmployees[2].id

\* the entries of departmentFit that qualify for an employee
Qualifying(employee, fit) ==
    {k \in 1..Len(fit) : fit[k][1] # employee.department /\ fit[k][2] > 600}

C8_Step ==
    (mode = "batch" /\ pc = "analyzed" /\ analysis.status = "ok" /\ analysis.hasFit)
        => LET fit == analysis.departmentFit
               Q == Qualifying(current, fit)
           IN  IF Q = {}
               THEN /\ proposals' = proposals
                    /\ errorCount' = errorCount
                    /\ pc' = "loop"
                    /\ log' = Append(log, LogEntry(i, current, "none"))
               ELSE LET chosen == IF pc' = "reason" THEN pending'.toDepartment
                                  ELSE proposals'[Len(proposals')].toDepartment
                    IN  /\ pc' # "reason" => Len(proposals') = Len(proposals) + 1
                        /\ errorCount' = errorCount
                        /\ \E q \in Q : /\ fit[q][1] = chosen
                                        /\ \A r \in Q : fit[r][2] <= fit[q][2]

\* C8: in batch mode the step that follows a profile chooses a department
\* of maximum fit among those other than the current one with fit > 0.6;
\* when none qualifies (a best fit of exactly 0.6 included) the step adds
\* no proposal and counts no error.
C8_BestQualifyingDepartment == [][C8_Step]_vars

\* two other departments qualify, with different scores, and the current
\* department scores higher than both
C8_Witness ==
    /\ mode = "batch"
    /\ pc = "reason"
    /\ Cardinality(Qualifying(current, analysis.departmentFit)) = 2
    /\ TargetFitScore(analysis.departmentFit, "Engineering") = 755
    /\ TargetFitScore(analysis.departmentFit, "Legal") = 900
    /\ TargetFitScore(analysis.departmentFit, current.department) = 1500
    /\ pending.toDepartment = "Legal"

\* max(fit score of the target department, 0.6), 0.6 when it has no score
FlooredFit(fit, dept) ==
    LET hits == {k \in 1..Len(fit) : fit[k][1] = dept}
    IN  IF hits = {} THEN 600
        ELSE LET score == fit[CHOOSE k \in hits : TRUE][2]
             IN  IF score > 600 THEN score ELSE 600

C9_Floor ==
    mode = "targeted"
        => /\ \A k \in 1..Len(proposals) : proposals[k].confidenceScore >= 600
           /\ pc = "reason"
                 => pending.confidenceScore
                        = FlooredFit(analysis.departmentFit, targetDepartment)

C9_Step ==
    (mode = "targeted" /\ pc = "reason")
        => /\ Len(proposals') = Len(proposals) + 1
           /\ proposals'[Len(proposals')].confidenceScore
                 = FlooredFit(analysis.departmentFit, targetDepartment)

\* C9: in targeted mode the confidence of a proposal is max(fit score of
\* the target department, 0.6), 0.6 when the fit is 0.3 or the department
\* has no score; no targeted proposal has a confidence below 0.6.
C9_TargetedConfidenceFloor == [](C9_Floor) /\ [][C9_Step]_vars

\* the target department was profiled at 0.3 and the confidence is 0.6
C9_Witness ==
    /\ mode = "targeted"
    /\ pc = "reason"
    /\ \E k \in 1..Len(analysis.departmentFit) :
          analysis.departmentFit[k] = <<targetDepartment, 300>>
    /\ pending.confidenceScore = 600

\* C10: with the roster <<E1 (Sales), E2 (Engineering)>>, E1 profiled with
\* Engineering at 0.9 and E2 with no fit above 0.6 elsewhere, a batch run
\* whose profiling succeeded returns exactly one proposal: E1, Sales to
\* Engineering, confidence 0.9.
C10_EndToEndScenario ==
    (provider = "scenario" /\ pc = "done" /\ errorCount = 0)
        => /\ Len(Returned) = 1
           /\ Returned[1].employeeId = "E1"
           /\ Returned[1].fromDepartment = "Sales"
           /\ Returned[1].toDepartment = "Engineering"
           /\ Returned[1].confidenceScore = 900

\* the scenario has run to its end
C10_Witness ==
    /\ provider = "scenario"
    /\ pc = "done"
    /\ errorCount = 0
    /\ Len(log) = 2
    /\ log[1].outcome = "proposal"
    /\ log[2].outcome = "none"

\* the employee a proposal was made for, as the input list holds it
ProposalEmployee(p) ==
    [id |-> p.employeeId, name |-> p.employeeName, department |-> p.fromDepartment]

ProposalEmployees(ps) == [k \in 1..Len(ps) |-> ProposalEmployee(ps[k])]

\* s can be obtained from t by deleting entries
RECURSIVE IsSubseq(_, _)
IsSubseq(s, t) ==
    IF s = <<>> THEN TRUE
    ELSE IF t = <<>> THEN FALSE
    ELSE IF Head(s) = Head(t) THEN IsSubseq(Tail(s), Tail(t))
    ELSE IsSubseq(s, Tail(t))

\* C11: in batch and targeted mode the proposals collected so far and the
\* proposals returned are, read as the employees they were made for, a
\* subsequence of the input list: same relative order, at most one proposal
\* per input entry, none for an employee that is not in the input.
C11_ProposalsFollowInputOrder ==
    mode \in {"batch", "targeted"} =>
        /\ IsSubseq(ProposalEmployees(proposals), employees)
        /\ IsSubseq(ProposalEmployees(Returned), employees)

\* a batch over two different employees returned a proposal for each
C11_Witness ==
    /\ mode = "batch"
    /\ pc = "done"
    /\ Len(employees) = 2
    /\ employees[1] # employees[2]
    /\ Len(Returned) = 2
    /\ Returned[1].employeeId = employees[1].id
    /\ Returned[2].employeeId = employees[2].id

\* C18: analyzeEmployee returns an analysis only when the parsed reply holds
\* a departmentFit mapping.
C18_DepartmentFitRequired ==
    analysis.status = "ok" => analysis.hasFit

\* the reply without its fence markers and outer whitespace
Cleaned == CleanContent(content)

Opens == {k \in 1..Len(Cleaned) : Cleaned[k] = "{"}

Closes == {k \in 1..Len(Cleaned) : Cleaned[k] = "}"}

FirstOpen == CHOOSE k \in Opens : \A j \in Opens : k <= j

LastClose == CHOOSE k \in Closes : \A j \in Closes : j <= k

\* the text from the first '{' to the last '}' inclusive
BraceSlice == SubSeq(Cleaned, FirstOpen, LastClose)

\* C17: once extractJSON has run on a reply, with the fence markers removed
\* it has failed with the one parse error exactly when the reply holds no
\* '{', holds no '}', has its last '}' before its first '{', or the text from
\* the first '{' to the last '}' is not valid JSON; otherwise it has returned
\* the JSON value of that text. Two concatenated objects fail.
C17_ExtractFirstToLastBrace ==
    extracted # NotExtracted =>
        LET malformed == \/ Opens = {}
                         \/ Closes = {}
                         \/ LastClose < FirstOpen
                         \/ ~JSONParse(BraceSlice).ok
        IN  /\ malformed => extracted = JsonParseError
            /\ ~malformed =>
                  /\ extracted.status = "parsed"
                  /\ extracted.value = JSONParse(BraceSlice).value
                  /\ Cleaned[FirstOpen] = "{"
                  /\ Cleaned[LastClose] = "}"
            /\ content = <<"{", "}", "{", "}">> => extracted = JsonParseError

\* a fenced reply was parsed to the object it holds
C17_Witness ==
    /\ content = <<"fence", "json", "{", "}">>
    /\ extracted = [status |-> "parsed", value |-> EmptyObject]

\* prose around an object with one member was dropped
C17_WitnessProse ==
    /\ content = <<"x", "{", "m", "}">>
    /\ extracted = [status |-> "parsed", value |-> [a |-> TRUE, o |-> <<>>]]

\* the handler of a conversational action has responded after a model call
Answered(action) ==
    /\ apc = "responded"
    /\ request.action = action
    /\ opCalls # <<>>

\* the reply to the first provider call of the operation
FirstReply == opCalls[1]

Ids(list) == {list[k].id : k \in 1..Len(list)}

\* C12: every candidate a search or a refine returns is an employee of the
\* roster, whatever ids the reply of the model names and whatever ids the
\* request carries.
C12_RefineStaysInRoster ==
    (apc = "responded" /\ request.action \in {"search", "refine"}) =>
        \A k \in 1..Len(response.candidates) :
            \E j \in 1..Len(Roster) : response.candidates[k] = Roster[j]

\* a refine whose request and whose reply both name the unknown id returned
\* the one roster employee named
C12_Witness ==
    /\ Answered("refine")
    /\ UnknownId \in request.candidates
    /\ FirstReply.kind = "json"
    /\ UnknownId \in FirstReply.ids
    /\ Ids(response.candidates) = {"E2"}

\* C13 as stated: a roster employee the reply names is part of the refined
\* set although the current candidate set does not hold it.
C13_RefineMayWiden ==
    (Answered("refine") /\ FirstReply.kind = "json") =>
        \A id \in FirstReply.ids \cap Ids(Roster) : id \in Ids(response.candidates)

\* C13: refine returns the candidates it was given whose ids the reply
\* names, in the order given; an employee outside the current candidate set
\* is never added.
C13_RefineOnlyNarrows ==
    (Answered("refine") /\ FirstReply.kind = "json") =>
        /\ Ids(response.candidates)
              = request.candidates \cap FirstReply.ids \cap Ids(Roster)
        /\ IsSubseq(response.candidates, Roster)

\* the reply named E2 besides E1, the current set was E1 alone, and the
\* refined set is E1 alone
C13_Witness ==
    /\ Answered("refine")
    /\ request.candidates = {"E1"}
    /\ FirstReply.kind = "json"
    /\ FirstReply.ids = {"E1", "E2"}
    /\ Ids(response.candidates) = {"E1"}

GenerateSucceeded ==
    /\ apc = "responded"
    /\ request.action \in GeneratingActions
    /\ response.status = 200

\* C14: when a generate action of the candidates endpoint has succeeded, the
\* store holds exactly the proposals of its response; none of the proposals
\* held before is left.
C14_GenerateReplacesProposals ==
    GenerateSucceeded =>
        /\ storeProposals = response.proposals
        /\ \A k \in 1..Len(storeProposals) :
              \A j \in 1..Len(proposalsBefore) :
                  storeProposals[k] # proposalsBefore[j]

\* an earlier proposal was stored and the action generated a new one
C14_Witness ==
    /\ GenerateSucceeded
    /\ proposalsBefore = <<OldProposal>>
    /\ Len(response.proposals) = 1
    /\ storeProposals = response.proposals

\* C15: a generate action with an empty candidate set is answered with an
\* error status and the stored proposals are those held before.
C15_EmptyCandidateSetRejected ==
    (/\ apc = "responded"
     /\ request.action \in GeneratingActions
     /\ request.candidates = {}) =>
        /\ response.status >= 400
        /\ storeProposals = proposalsBefore

\* C16 as stated: neither search nor refine fails when the reply is empty
\* or cannot be parsed; the response carries a fallback reasoning.
C16_ConversationNeverFails ==
    \A action \in {"search", "refine"} :
        (Answered(action) /\ FirstReply.kind \in {"empty", "unparseable"}) =>
            /\ opResult.status = "returned"
            /\ response.status = 200
            /\ response.reasoning \in {"fallback", "default"}

\* C16: on a failed model call refine returns the candidates it was given
\* with the fallback reasoning and the endpoint answers 200; search throws
\* and the endpoint answers 500 without candidates; a parsed reply without a
\* reasoning gets the default reasoning in both.
C16_RefineFallsBackSearchThrows ==
    /\ (Answered("refine") /\ FirstReply.kind # "json") =>
          /\ opResult.status = "returned"
          /\ response.status = 200
          /\ response.reasoning = "fallback"
          /\ Ids(response.candidates) = request.candidates \cap Ids(Roster)
    /\ (Answered("search") /\ FirstReply.kind # "json") =>
          /\ opResult.status = "thrown"
          /\ response.status = 500
          /\ response.candidates = <<>>
    /\ \A action \in {"search", "refine"} :
          (/\ Answered(action)
           /\ FirstReply.kind = "json"
           /\ FirstReply.reasoning = "missing") =>
              /\ response.status = 200
              /\ response.reasoning = "default"

\* a refine whose reply could not be parsed answered with the two candidates
\* it was given
C16_Witness ==
    /\ Answered("refine")
    /\ FirstReply.kind = "unparseable"
    /\ response.status = 200
    /\ response.reasoning = "fallback"
    /\ Len(response.candidates) = 2

\* a search whose reply was empty answered 500
C16_WitnessSearch ==
    /\ Answered("search")
    /\ FirstReply.kind = "empty"
    /\ response.status = 500

SingleCallOperations == {"search", "refine", "analyzeDepartmentRequirements"}

\* C19 as stated: an operation whose first provider call failed has called
\* the provider again.
C19_EveryOperationRetries ==
    (/\ apc = "responded"
     /\ request.action \in SingleCallOperations
     /\ opCalls # <<>>
     /\ FirstReply.kind # "json") =>
        Len(opCalls) >= 2

\* C19: only employee profiling retries. Search, refine and department
\* profiling have issued exactly one provider call when they end, and after
\* a failed call search and department profiling have thrown and refine has
\* fallen back; analyzeEmployee throws only after maxRetries provider calls.
C19_OnlyProfilingRetries ==
    /\ (/\ apc = "responded"
        /\ request.action \in SingleCallOperations
        /\ opResult.status # "none") =>
          /\ Len(opCalls) = 1
          /\ FirstReply.kind # "json" =>
                IF request.action = "refine"
                THEN opResult.status = "returned" /\ opResult.reasoning = "fallback"
                ELSE opResult.status = "thrown"
    /\ (pc = "analyzed" /\ analysis.status = "thrown") =>
          Len(ProviderCalls) = maxRetries

\* a search ended after its one provider call had failed
C19_Witness ==
    /\ Answered("search")
    /\ Len(opCalls) = 1
    /\ FirstReply.kind = "apiError"
    /\ opResult.status = "thrown"

\* department profiling ended after its one provider call had failed
C19_WitnessDepartment ==
    /\ Answered("analyzeDepartmentRequirements")
    /\ Len(opCalls) = 1
    /\ FirstReply.kind = "empty"
    /\ opResult.status = "thrown"

\* C20: the metrics POST /api/analyze returns and records carry the number
\* of employees whose processing failed in the batch, and the success rate
\* computed with it.
C20_ErrorCountReturned ==
    (/\ apc = "responded"
     /\ request.endpoint = "analyze"
     /\ request.action = "POST"
     /\ response.status = 200) =>
        /\ response.metrics[1].errorCount = errorCount
        /\ response.metrics[1].successRate
              = GenerateMetrics(Len(response.proposals), errorCount).successRate
        /\ storeMetrics[Len(storeMetrics)] = response.metrics[1]

\* C30: in the trace of a running analyzeEmployee every backoff sleep stands
\* directly after a failed provider call and directly before the next call;
\* every failed call that is not the last allowed one is followed by exactly
\* one sleep once the loop has gone on; nothing follows a successful call
\* or the failed call of attempt maxRetries.
C30_BackoffBetweenAttempts ==
    /\ \A k \in 1..Len(attemptLog) :
          /\ attemptLog[k].kind = "sleep" =>
                /\ k > 1
                /\ IsFailure(attemptLog[k - 1])
                /\ k < Len(attemptLog) => attemptLog[k + 1].kind # "sleep"
          /\ (IsFailure(attemptLog[k]) /\ k < Len(attemptLog)) =>
                attemptLog[k + 1].kind = "sleep"
          /\ attemptLog[k].kind = "ok" => k = Len(attemptLog)
    /\ Len(ProviderCalls) <= maxRetries
    /\ pc = "analyzed" =>
          /\ attemptLog[Len(attemptLog)].kind # "sleep"
          /\ Len(attemptLog) = 2 * Len(ProviderCalls) - 1

\* three failed calls with one sleep after the first and one after the second
C30_Witness ==
    /\ pc = "analyzed"
    /\ analysis.status = "thrown"
    /\ Len(attemptLog) = 5
    /\ attemptLog[2].kind = "sleep"
    /\ attemptLog[4].kind = "sleep"
    /\ IsFailure(attemptLog[5])

\* C29: with the timers firing, every call of analyzeEmployee ends, returned
\* or thrown, whether or not the provider ever answers, and it never makes
\* more than maxRetries provider calls; an attempt the timer ended is a
\* failed attempt like any other.
C29_AnalyzeEmployeeTerminates ==
    /\ <>(pc = "done" /\ result.status \in {"ok", "thrown"})
    /\ [](Len(ProviderCalls) <= maxRetries)
    /\ [](\A k \in 1..Len(attemptLog) :
             attemptLog[k].kind = "timeout" => IsFailure(attemptLog[k]))

\* all three attempts were ended by the timer and the call has thrown
C29_Witness ==
    /\ pc = "done"
    /\ result.status = "thrown"
    /\ Len(ProviderCalls) = maxRetries
    /\ \A k \in 1..Len(ProviderCalls) : ProviderCalls[k].kind = "timeout"

\* a step taken while an analyzer operation is running
C26_Step ==
    /\ (pc # "idle" /\ pc' # "idle") =>
          /\ employees' = employees
          /\ storeData' = storeData
    /\ apc \in {"search", "refine", "department"} =>
          /\ storeData' = storeData
          /\ request'.candidates = request.candidates

\* C26: from its entry to its return, successful or not, no analyzer
\* operation changes its input list of employee records or the roster the
\* store holds; what it narrows or selects it builds as a new list.
C26_AnalyzerLeavesInputsAlone == [][C26_Step]_vars

\* a batch that narrowed its list by id has returned and both the argument
\* and the store's roster are the full roster
C26_Witness ==
    /\ apc = "analyze"
    /\ pc = "done"
    /\ Len(targetEmployees) < Len(employees)
    /\ employees = Roster
    /\ storeData = Roster

\* the outcome a batch gives an employee, computed from the employee's own
\* record and the analysis obtained for it, and from nothing else
OwnOutcome(employee, a) ==
    IF a.status = "thrown" THEN "error"
    ELSE IF /\ a.hasFit
            /\ \E k \in 1..Len(a.departmentFit) :
                  /\ a.departmentFit[k][1] # employee.department
                  /\ a.departmentFit[k][2] > FitThreshold
    THEN "proposal"
    ELSE "none"

\* the step of a batch that finishes one employee
C27_Step ==
    (mode = "batch" /\ Len(log') = Len(log) + 1) =>
        LET entry == log'[Len(log')]
            best == BestDepartment(current, analysis.departmentFit)
        IN  /\ entry.employeeId = current.id
            /\ entry.outcome = OwnOutcome(current, analysis)
            /\ IF entry.outcome = "proposal"
               THEN /\ Len(proposals') = Len(proposals) + 1
                    /\ SubSeq(proposals', 1, Len(proposals)) = proposals
                    /\ \E reasoning \in {"model", "template"} :
                          proposals'[Len(proposals')] =
                              MakeProposal(current, best.toDepartment,
                                           best.confidenceScore, reasoning)
               ELSE proposals' = proposals

\* C27: in a batch the outcome recorded for an employee (error, no proposal,
\* or the proposal with its department and confidence) is a function of that
\* employee's record and of the replies obtained for that employee alone;
\* neither the other employees of the list, nor their order, nor the
\* proposals already collected enter it.
C27_OutcomeIndependentOfOthers == [][C27_Step]_vars

\* two different employees of one batch were both proposed for the same
\* department
C27_Witness ==
    /\ mode = "batch"
    /\ pc = "done"
    /\ Len(Returned) = 2
    /\ Returned[1].employeeId # Returned[2].employeeId
    /\ Returned[1].toDepartment = Returned[2].toDepartment

\* a POST to either endpoint is taken up
Arrives ==
    /\ apc = "idle"
    /\ request'.endpoint \in {"analyze", "candidates"}
    /\ request'.action # "GET"

C21_Step ==
    /\ (Arrives /\ storeData' = <<>>) =>
          /\ apc' = "responded"
          /\ response' = ErrorResponse(400)
          /\ opCalls' = <<>>
          /\ pc' = "idle"
          /\ attemptLog' = <<>>
          /\ storeProposals' = storeProposals
          /\ storeMetrics' = storeMetrics
          /\ pendingWrites' = pendingWrites
    /\ (apc = "responded" /\ response.status = 400 /\ storeData = <<>>) =>
          /\ opCalls' = <<>>
          /\ pc' = "idle"
          /\ storeProposals' = storeProposals
          /\ storeMetrics' = storeMetrics
          /\ pendingWrites' \subseteq pendingWrites

C21_Witness ==
    /\ apc = "responded"
    /\ request.endpoint = "analyze"
    /\ request.action = "POST"
    /\ storeData = <<>>
    /\ response.status = 400
    /\ storeProposals = <<OldProposal>>

\* the same for a proposal-generating request to the candidates endpoint
C21_WitnessCandidates ==
    /\ apc = "responded"
    /\ request.endpoint = "candidates"
    /\ request.action \in GeneratingActions
    /\ storeData = <<>>
    /\ response.status = 400
    /\ storeProposals = <<OldProposal>>

\* a proposal-generating request of the conversation whose condition names
\* no department of the roster, on a loaded roster
NoTargetRequest ==
    /\ request.endpoint = "candidates"
    /\ request.action \in GeneratingActions
    /\ request.mentions = {}
    /\ storeData # <<>>

C22_WitnessRefused ==
    /\ apc = "responded"
    /\ NoTargetRequest
    /\ request.action = "generateProposals"
    /\ response.status = 500
    /\ storeProposals = <<OldProposal>>

\* C23: a proposal accepted by addProposals stays in the store's collection:
\* as long as the file write that addProposals issued is still in flight (no
\* clearProposals or clearData can have run since, a request that generates
\* proposals being accepted once), every proposal of the snapshot being
\* written is among the proposals getProposals() returns.
C23_NoLostUpdate ==
    \A w \in pendingWrites :
        w.file = "proposals" =>
            \A k \in 1..Len(w.content) :
                \E j \in 1..Len(storeProposals) :
                    storeProposals[j] = w.content[k]

C25_Step ==
    /\ (apc = "idle" /\ apc' = "analyze") => storeProposals' = storeProposals
    /\ (apc = "analyze" /\ apc' = "analyze") => storeProposals' = storeProposals
    /\ (apc = "analyze" /\ apc' = "responded") =>
          /\ response'.status = 200
          /\ storeProposals' = storeProposals \o response'.proposals

\* C25: a batch analysis through POST /api/analyze only appends to the
\* store's proposals: from the arrival of the request (before the handler
\* initializes the store) to its response the collection keeps every
\* proposal it had, in order, and at the response it is the collection of
\* before followed by the proposals of the response.
C25_AnalyzeOnlyAppends == [][C25_Step]_vars

\* C24: when the panel's deadline has expired on a batch analysis, none of
\* the batch's proposals is added to the store: once the handler of the
\* abandoned request has answered, the stored proposals are those it found.
C24_DeadlineAbandonsBatch ==
    (/\ panel = "timedOut"
     /\ request.endpoint = "analyze"
     /\ request.action = "POST"
     /\ apc = "responded") => storeProposals = proposalsBefore

\* the skills of a list, as a set
SkillSet(list) == {list[k] : k \in 1..Len(list)}

\* the department of the store with this name, if any
StoredDepartments(depts, name) ==
    {depts[k] : k \in {j \in 1..Len(depts) : depts[j].name = name}}

C28_Step ==
    \A d \in {storeDepartments[k] : k \in 1..Len(storeDepartments)} :
        \E e \in StoredDepartments(storeDepartments', d.name) :
            SkillSet(d.requiredSkills) \subseteq SkillSet(e.requiredSkills)

\* C28 as stated: across imports a department's required-skill set never
\* shrinks; every skill it contained before an import it contains after it.
C28_SkillSetsNeverShrink == [][C28_Step]_vars

\* the employees of the store that belong to a department
Members(name) ==
    SelectSeq(storeData, LAMBDA e : e.department = name)

\* C28 (amended): the departments of the store are derived from the roster
\* of the last import alone: there is one department for each department
\* name occurring in the roster and no other, its members are the roster's
\* employees of that department in roster order, and its required skills
\* are the duplicate-free union of those members' skills. Nothing is carried
\* over from an earlier import.
C28_SkillsAreUnionOfMembers ==
    /\ \A k \in 1..Len(storeData) :
          Cardinality(StoredDepartments(storeDepartments,
                                        storeData[k].department)) = 1
    /\ \A k, j \in 1..Len(storeDepartments) :
          storeDepartments[k].name = storeDepartments[j].name => k = j
    /\ \A k \in 1..Len(storeDepartments) :
          LET d == storeDepartments[k]
              members == Members(d.name)
          IN  /\ members # <<>>
              /\ d.currentMembers = [m \in 1..Len(members) |-> members[m].id]
              /\ SkillSet(d.requiredSkills) =
                    UNION {SkillSet(Skills(members[m])) : m \in 1..Len(members)}
              /\ \A a, b \in 1..Len(d.requiredSkills) :
                    d.requiredSkills[a] = d.requiredSkills[b] => a = b

\* two members of one department with a repeated and a shared skill
C28_Witness ==
    /\ apc = "none"
    /\ Len(storeData) = 2
    /\ storeData[1].department = storeData[2].department
    /\ storeData[1].skills = <<"java", "java">>
    /\ storeData[2].skills = <<"sql", "java">>
    /\ Len(storeDepartments) = 1
    /\ storeDepartments[1].requiredSkills = <<"java", "sql">>

C31_Step ==
    /\ (mode = "batch" /\ ~options.includeReasons) =>
          /\ pc' # "reason"
          /\ Len(proposals') > Len(proposals) =>
                proposals'[Len(proposals')].reasoning = "template"
    /\ (mode = "targeted" /\ pc = "analyzed" /\ analysis.status = "ok") =>
          pc' = "reason"

\* C31: in batch mode without includeReasons no reasoning call is issued and
\* every proposal carries the templated text; in targeted mode the reasoning
\* call is issued for every candidate that was not skipped and for which
\* analyzeEmployee returned an analysis.
C31_ReasoningCallPerMode == [][C31_Step]_vars

\* C36: the analysis analyzeEmployee(e) returns has employeeId equal to e.id,
\* whatever keys the parsed reply has.
C36_EmployeeIdIsTheEmployees ==
    (mode = "analyze" /\ pc = "done" /\ result.status = "ok") =>
        result.employeeId = employees[1].id

\* the step that ends a reasoning call
C32_Step ==
    pc = "reason" =>
        /\ Len(proposals') = Len(proposals) + 1
        /\ SubSeq(proposals', 1, Len(proposals)) = proposals
        /\ \E reasoning \in {"model", "template"} :
              proposals'[Len(proposals')] =
                  MakeProposal(current, pending.toDepartment,
                               pending.confidenceScore, reasoning)
        /\ errorCount' = errorCount
        /\ log' = Append(log, LogEntry(i, current, "proposal"))
        /\ i' = i + 1

\* C32: in batch and in targeted mode, however the reasoning call ends (text,
\* empty reply or failure), the proposal of the employee is pushed with the
\* department and confidence found before the call and with the model's text
\* or the templated text, the error count is unchanged, and the loop goes on
\* with the next employee.
C32_ReasoningFailureKeepsProposal == [][C32_Step]_vars

\* a proposal carrying the templated text although the reasoning call was
\* issued for it: the call failed or its reply was empty
C32_Witness ==
    /\ pc = "done"
    /\ mode = "targeted"
    /\ errorCount = 0
    /\ Len(Returned) = 2
    /\ Returned[1].reasoning = "template"
    /\ Returned[2].reasoning = "model"

\* the same in batch mode with includeReasons
C32_WitnessBatch ==
    /\ pc = "done"
    /\ mode = "batch"
    /\ options.includeReasons
    /\ errorCount = 0
    /\ Len(Returned) >= 1
    /\ Returned[1].reasoning = "template"

\* C33: a batch whose pre-filter call failed (no provider call has succeeded
\* so far) goes on with every employee the id filter kept, and so does a
\* batch whose condition is absent or blank, for which the filter call is
\* never issued; in neither case does generateTransferProposals throw.
C33_FailedPreFilterKeepsEveryone ==
    mode = "batch" =>
        /\ ~HasCondition(options) => pc # "filter"
        /\ (pc \notin {"start", "filter"} /\
            (~providerEverOk \/ ~HasCondition(options))) =>
              targetEmployees = IdFiltered(employees, options)
        /\ result.status # "thrown"

\* the pre-filter call failed, and both employees were analyzed all the same
C33_Witness ==
    /\ mode = "batch"
    /\ HasCondition(options)
    /\ ~options.employeeIds.present
    /\ pc = "analyzed"
    /\ ~providerEverOk
    /\ Len(employees) = 2
    /\ i = 2
    /\ targetEmployees = employees

\* no condition, no filter call
C33_WitnessBlank ==
    /\ mode = "batch"
    /\ options.naturalLanguageCondition = "blank"
    /\ pc = "done"
    /\ Len(Returned) = 2

\* the candidate list the 'refine' case passes to refineCandidate
GivenCandidates == SelectSeq(storeData, LAMBDA emp : emp.id \in request.candidates)

\* C34: when the one call of refineCandidate fails (provider error, empty or
\* unparseable reply) the operation returns the very list it was given, same
\* elements in the same order; when the reply parses, what it returns is a
\* sub-list of the given list in the given order.
C34_RefineFailureReturnsGivenList ==
    Answered("refine") =>
        /\ opResult.status = "returned"
        /\ FirstReply.kind # "json" =>
              /\ opResult.candidates = GivenCandidates
              /\ response.candidates = GivenCandidates
        /\ FirstReply.kind = "json" =>
              /\ IsSubseq(opResult.candidates, GivenCandidates)
              /\ response.candidates = opResult.candidates

\* the provider call of a refine over both employees failed
C34_Witness ==
    /\ Answered("refine")
    /\ FirstReply.kind = "apiError"
    /\ request.candidates = {"E1", "E2"}
    /\ response.candidates = Roster

\* a refine over both employees kept the second alone
C34_WitnessNarrowed ==
    /\ Answered("refine")
    /\ FirstReply.kind = "json"
    /\ request.candidates = {"E1", "E2"}
    /\ response.candidates = <<Roster[2]>>

\* C35: every proposal of a batch, collected or returned, names as
\* toDepartment a department of the set passed to generateTransferProposals.
C35_TargetIsKnownDepartment ==
    mode = "batch" =>
        \A ps \in {proposals, Returned} :
            \A k \in 1..Len(ps) : ps[k].toDepartment \in Departments

\* C37: when options.maxProposals is set, the analyze endpoint answers with
\* at most that many proposals.
C37_MaxProposalsHonoured ==
    (/\ apc = "responded"
     /\ request.endpoint = "analyze"
     /\ request.action = "POST"
     /\ request.body.maxProposals > 0) =>
        Len(response.proposals) <= request.body.maxProposals

\* the position of a department in the roster's department list
DepartmentIndex(name) ==
    CHOOSE k \in 1..Len(DepartmentOrder) : DepartmentOrder[k] = name

\* a proposal-generating request whose condition names a department
TargetedRequest ==
    /\ request.endpoint = "candidates"
    /\ request.action \in GeneratingActions
    /\ request.mentions # {}
    /\ storeData # <<>>

\* C38: when the condition of a proposal-generating request contains
\* department names, the generation is the targeted one for the department
\* that comes first in roster order among those named; the response is 200,
\* holds no proposal for a candidate of that department, and every proposal
\* it holds is for a candidate of the request and has that department as
\* toDepartment.
C38_FirstNamedDepartmentIsTarget ==
    TargetedRequest =>
        LET target == CHOOSE d \in request.mentions :
                         \A e \in request.mentions :
                            DepartmentIndex(d) <= DepartmentIndex(e)
        IN  /\ apc = "generate" =>
                  /\ mode = "targeted"
                  /\ targetDepartment = target
            /\ apc = "responded" =>
                  /\ response.status = 200
                  /\ \A k \in 1..Len(response.proposals) :
                        LET p == response.proposals[k]
                        IN  /\ p.toDepartment = target
                            /\ p.fromDepartment # target
                            /\ p.employeeId \in request.candidates
                            /\ \E j \in 1..Len(storeData) :
                                  /\ storeData[j].id = p.employeeId
                                  /\ storeData[j].department = p.fromDepartment

\* the condition names both departments, both employees are candidates: the
\* one of Sales gets no proposal, the other is proposed for Sales
C38_Witness ==
    /\ apc = "responded"
    /\ TargetedRequest
    /\ request.mentions = {"Sales", "Engineering"}
    /\ request.candidates = {"E1", "E2"}
    /\ Len(response.proposals) = 1
    /\ response.proposals[1].employeeId = "E2"
    /\ response.proposals[1].toDepartment = "Sales"


\* C39: once DELETE /api/data has succeeded and until something is generated
\* again, a GET of /api/data reports no data and a GET of /api/analyze
\* reports no proposals and no metrics, outside production too.
C39_ClearedDataStaysGone ==
    (cleared /\ apc = "responded" /\ request.action = "GET") =>
        /\ ~response.success
        /\ response.employees = <<>>
        /\ response.proposals = <<>>
        /\ response.metrics = <<>>

\* in production, where initialize() reads no file, the same statement
C39_ClearedDataStaysGoneInProduction ==
    (production /\ cleared /\ apc = "responded" /\ request.action = "GET") =>
        /\ ~response.success
        /\ response.employees = <<>>
        /\ response.proposals = <<>>
        /\ response.metrics = <<>>

C39_ProductionGetAfterDelete ==
    production /\ cleared /\ apc = "responded" /\ request.action = "GET"


\* the configured user name, 'admin' when none is configured
ConfiguredUsername ==
    IF auth.env.username \in {Undefined, <<>>} THEN Admin ELSE auth.env.username

\* the request carries Basic credentials "user:password" whose user and
\* password are the configured ones, a password being configured
CarriesConfiguredCredentials ==
    /\ auth.header.scheme = "Basic"
    /\ auth.env.password # Undefined
    /\ auth.header.payload = ConfiguredUsername \o <<58>> \o auth.env.password

\* the path is /login or lies under /api/auth/
ExemptPath ==
    \/ auth.path = <<"/login">>
    \/ StartsWith(auth.path, <<"/api/auth", "/">>)

\* a request to a path other than /login and /api/auth/* passes only with
\* the cookie or the configured credentials, and is redirected otherwise
C40_PassesOnlyAuthenticated ==
    (auth.kind = "middleware" /\ ~ExemptPath) =>
        /\ auth.outcome = "next" =>
              (auth.cookie = Authenticated \/ CarriesConfiguredCredentials)
        /\ auth.outcome # "next" => auth.outcome = "redirect"

\* without BASIC_AUTH_PASSWORD no Basic credentials and no login is accepted
C40_UnconfiguredAcceptsNothing ==
    auth.env.password = Undefined =>
        /\ (auth.kind = "middleware" /\ ~ExemptPath /\ auth.cookie # Authenticated)
              => auth.outcome = "redirect"
        /\ auth.kind = "login" => auth.outcome # "ok"

\* C40: a request to any path other than /login and /api/auth/* passes the
\* middleware only if it carries the auth-token cookie 'authenticated' or
\* Basic credentials equal to the configured ones, and is redirected to
\* /login otherwise; when BASIC_AUTH_PASSWORD is not configured, no Basic
\* credentials and no login request are accepted.
C40_MiddlewareAdmitsOnlyAuthenticated ==
    C40_PassesOnlyAuthenticated /\ C40_UnconfiguredAcceptsNothing

====
